---- MODULE Spec2Model ----
(***************************************************************************)
(* A model of libkineto's CuptiActivityProfiler                            *)
(* (src/libkineto/src/CuptiActivityProfiler.cpp), built with HAS_CUPTI and *)
(* a GPU present (cpuOnly_ = false).                                       *)
(*                                                                         *)
(* The profiler object is the record `prof`; its methods are operators     *)
(* from a profiler record to a profiler record, composed in the order the  *)
(* code calls them.  The threads of the program are                        *)
(*   "poll"  the profiler thread, calling performRunLoopStep with          *)
(*           currentIter = -1,                                             *)
(*   "step"  the application thread, calling performRunLoopStep from its   *)
(*           step() API with currentIter >= 0,                             *)
(*   the background collectTrace task(s) spawned by "step",                *)
(*   a caller of performMemoryLoop,                                        *)
(* and configure / transferCpuTrace, which hold mutex_ from their first    *)
(* statement to their last and are one atomic step each.                   *)
(* performRunLoopStep reads currentRunloopState_ (an atomic) without       *)
(* holding mutex_, so it is split where another thread can observe or      *)
(* change what it read: at the switch, at each evaluation of shared flags, *)
(* and at each acquisition of mutex_.                                      *)
(***************************************************************************)
EXTENDS Integers, Sequences, FiniteSets, TLC

(***************************************************************************)
(* Bounds of the model                                                     *)
(***************************************************************************)
\* the clock runs 0..MaxTime
MaxTime == 2
\* number of configure calls that get past the busy check
MaxConfigures == 1
\* CPU trace buffers accepted per capture
MaxCpuBuffers == 1

VARIABLES
  prof,      \* the CuptiActivityProfiler object's fields
  cupti,     \* the vendor backend (cupti_): what the driver asked of it
  mutex,     \* owner of mutex_ ("none" when free)
  pc,        \* position of each performRunLoopStep caller
  locals,    \* the arguments and locals of each caller's current call
  bgPc,      \* position of each background collectTrace task
  bgArgs,    \* the arguments each background task was spawned with
  memPc,     \* position of the performMemoryLoop caller
  clock,     \* system_clock::now()
  crashed,   \* the process dereferenced a null pointer and aborted
  lastOp,    \* history: the operation that completed (or advanced) last
  hist,      \* history counters
  result     \* outcome of the last pure-function evaluation (function specs)

vars == <<prof, cupti, mutex, pc, locals, bgPc, bgArgs, memPc, clock, crashed,
          lastOp, hist, result>>

Threads == {"poll", "step"}
\* background task slots: the code uses one; a second exists to be observed
BgIds == {1, 2}
\* the child profilers registered with the driver
Profilers == {1}
\* a pointer is a sequence: <<>> is nullptr, <<x>> points to x
Null == <<>>

Ptr(x) == <<x>>

Deref(ptr) == ptr[1]

(***************************************************************************)
(* Finite maps (std::unordered_map) as functions                           *)
(***************************************************************************)
EmptyMap == [x \in {} |-> 0]

Put(m, k, v) == [x \in (DOMAIN m) \cup {k} |-> IF x = k THEN v ELSE m[x]]

Max(a, b) == IF a > b THEN a ELSE b

(***************************************************************************)
(* Configurations (Config, read through its accessors)                     *)
(***************************************************************************)
TimeConfig(start, warmup, duration, types) ==
  [hasProfileStartIteration |-> FALSE, requestTimestamp |-> start,
   activitiesWarmupDuration |-> warmup, activitiesDuration |-> duration,
   profileStartIteration |-> 0, activitiesRunIterations |-> 0,
   selectedActivityTypes |-> types, activitiesCudaSyncWaitEvents |-> TRUE]

IterConfig(startIter, runIters, types) ==
  [hasProfileStartIteration |-> TRUE, requestTimestamp |-> 0,
   activitiesWarmupDuration |-> 0, activitiesDuration |-> 1,
   profileStartIteration |-> startIter, activitiesRunIterations |-> runIters,
   selectedActivityTypes |-> types, activitiesCudaSyncWaitEvents |-> TRUE]

DefaultTypes == {"cpu_op", "kernel", "cuda_runtime", "external_correlation"}

\* the configurations configure is called with
Configs ==
  {TimeConfig(1, w, 1, DefaultTypes) : w \in {0, 1}}
    \cup {IterConfig(1, 1, DefaultTypes \cup {"gpu_user_annotation"})}

\* the iteration numbers the application's step() passes
Iters == 0..2

\* how far ahead of now the caller places nextWakeupTime
WakeupDeltas == {2}

IntMax == 1000000

(***************************************************************************)
(* ConfigDerivedState                                                      *)
(***************************************************************************)
ConfigDerivedState(config) ==
  [profileActivityTypes |-> config.selectedActivityTypes,
   profileStartTime |-> config.requestTimestamp,
   profileDuration |-> config.activitiesDuration,
   profileWarmupDuration |-> config.activitiesWarmupDuration,
   profilingByIter |-> config.hasProfileStartIteration,
   profileStartIter |->
     IF config.hasProfileStartIteration
       THEN config.profileStartIteration ELSE -1,
   profileEndIter |->
     IF config.hasProfileStartIteration
       THEN config.profileStartIteration + config.activitiesRunIterations
       ELSE IntMax,
   \* a default-constructed time_point (the epoch) when profiling by iteration
   profileEndTime |->
     IF config.hasProfileStartIteration
       THEN 0 ELSE config.requestTimestamp + config.activitiesDuration]

\* faulty variant: the warmup test and the start-time test are skipped
canStartAlways(dc, now) == TRUE

\* faulty variant: a start exactly warmupDuration away is refused
canStartStrict(dc, now) ==
  IF dc.profilingByIter THEN TRUE
  ELSE IF dc.profileStartTime < now THEN FALSE
  ELSE IF (dc.profileStartTime - now) <= dc.profileWarmupDuration THEN FALSE
  ELSE TRUE

canStart(dc, now) ==
  IF dc.profilingByIter THEN TRUE
  ELSE IF dc.profileStartTime < now THEN FALSE
  ELSE IF (dc.profileStartTime - now) < dc.profileWarmupDuration THEN FALSE
  ELSE TRUE

\* faulty variant: a time-driven capture answers step() by the clock
isWarmupDoneAnyCaller(dc, now, currentIter) ==
  IF ~dc.profilingByIter THEN now >= dc.profileStartTime
  ELSE IF currentIter >= 0 THEN currentIter >= dc.profileStartIter
  ELSE FALSE

isWarmupDone(dc, now, currentIter) ==
  LET isTimestampBased == ~dc.profilingByIter /\ currentIter < 0
      isIterationBased == dc.profilingByIter /\ currentIter >= 0
  IN  IF isTimestampBased THEN now >= dc.profileStartTime
      ELSE IF isIterationBased THEN currentIter >= dc.profileStartIter
      ELSE FALSE

\* faulty variant: the end of the collection is never recognised
isCollectionDoneNever(dc, now, currentIter) == FALSE

isCollectionDone(dc, now, currentIter) ==
  LET isTimestampBased == ~dc.profilingByIter /\ currentIter < 0
      isIterationBased == dc.profilingByIter /\ currentIter >= 0
  IN  IF isTimestampBased THEN now >= dc.profileEndTime
      ELSE IF isIterationBased THEN currentIter >= dc.profileEndIter
      ELSE FALSE

(***************************************************************************)
(* The profiler object                                                     *)
(***************************************************************************)
DefaultErrorCounts ==
  [out_of_range_events |-> 0, blocklisted_runtime_events |-> 0,
   invalid_external_correlation_events |-> 0,
   gpu_and_cpu_op_out_of_order |-> 0, unexepected_cuda_events |-> 0,
   cupti_stopped_early |-> FALSE]

\* what the output sink (logger_) has been handed for the current trace
EmptyLogger ==
  [activities |-> <<>>, spans |-> <<>>, gpuSpans |-> {}, userSpans |-> {},
   finalized |-> FALSE]

\* The object after its constructor.  waitEventMap and ctxToDeviceId are the
\* file-level statics of the anonymous namespace; the process has one
\* profiler, so they are kept with its fields.
InitProf ==
  [currentRunloopState |-> "WaitForRequest",
   config |-> Null,
   derivedConfig |-> Null,
   captureWindowStartTime |-> 0,
   captureWindowEndTime |-> 0,
   traceBuffers |-> Null,
   activityMap |-> EmptyMap,
   cpuCorrelationMap |-> EmptyMap,
   userCorrelationMap |-> EmptyMap,
   correlatedCudaActivities |-> EmptyMap,
   gpuUserEventMap |-> EmptyMap,
   traceSpans |-> EmptyMap,
   clientActivityTraceMap |-> EmptyMap,
   seenDeviceStreams |-> {},
   logQueue |-> <<>>,
   iterationCountMap |-> EmptyMap,
   overheadInfo |-> <<>>,
   resourceOverheadCount |-> 0,
   ecs |-> DefaultErrorCounts,
   metadata |-> {},
   sessions |-> <<>>,
   rangeProfilingActive |-> FALSE,
   toggleState |-> FALSE,
   collectTraceThread |-> 0,
   isCollectingTrace |-> FALSE,
   waitEventMap |-> EmptyMap,
   ctxToDeviceId |-> EmptyMap,
   logger |-> EmptyLogger]

InitCupti == [enabled |-> FALSE, stopCollection |-> FALSE]

\* isActive() is declared in CuptiActivityProfiler.h
isActive(p) == p.currentRunloopState # "WaitForRequest"

(***************************************************************************)
(* Conversions                                                             *)
(***************************************************************************)
\* Correlation ids are unsigned 32-bit in the backend's records.  The model
\* scales the width to IdBits bits: ids are 0..2^IdBits - 1 and the signed
\* parameter of linkedActivity holds -2^(IdBits-1)..2^(IdBits-1) - 1.
IdBits == 4

\* an unsigned id passed through the signed (int32_t) parameter
Int32(x) == IF x >= 2 ^ (IdBits - 1) THEN x - 2 ^ IdBits ELSE x

(***************************************************************************)
(* resetTraceData / resetInternal                                          *)
(***************************************************************************)
resetTraceData(p) ==
  [p EXCEPT
     !.activityMap = EmptyMap,
     !.cpuCorrelationMap = EmptyMap,
     !.correlatedCudaActivities = EmptyMap,
     !.gpuUserEventMap = EmptyMap,
     !.traceSpans = EmptyMap,
     !.clientActivityTraceMap = EmptyMap,
     !.seenDeviceStreams = {},
     !.logQueue = <<>>,
     !.traceBuffers = Null,
     !.metadata = {},
     !.sessions = <<>>,
     !.resourceOverheadCount = 0,
     !.ecs = DefaultErrorCounts]

resetInternal(p) ==
  [resetTraceData(p) EXCEPT !.currentRunloopState = "WaitForRequest"]

(***************************************************************************)
(* startTraceInternal / stopTraceInternal                                  *)
(***************************************************************************)
\* libkineto::timeSinceEpoch: the time point as a count of clock units
timeSinceEpoch(now) == now

SessionsTo(sessions, st) == [i \in DOMAIN sessions |-> st]

startTraceInternal(p, now) ==
  [p EXCEPT
     !.captureWindowStartTime = timeSinceEpoch(now),
     !.sessions = SessionsTo(p.sessions, "started"),
     !.currentRunloopState = "CollectTrace"]

stopTraceInternal(p, now) ==
  [p EXCEPT
     !.captureWindowEndTime = timeSinceEpoch(now),
     !.toggleState = FALSE,
     !.sessions = SessionsTo(p.sessions, "stopped"),
     !.currentRunloopState = "ProcessTrace"]

\* cupti_.enableCuptiActivities; the backend clears its stopped-early flag
\* when collection is explicitly enabled
cuptiEnable(c) ==
  [c EXCEPT !.enabled = TRUE, !.stopCollection = FALSE]

\* cupti_.disableCuptiActivities
cuptiDisable(c) == [c EXCEPT !.enabled = FALSE]

(***************************************************************************)
(* Records: CPU trace buffers, raw backend records, activity wrappers      *)
(***************************************************************************)
\* GenericTraceActivity of a CpuTraceBuffer
CpuActivity(id, type, startTime, endTime) ==
  [id |-> id, type |-> type, startTime |-> startTime, endTime |-> endTime,
   finished |-> TRUE]

CpuTraceBuffer(name, startTime, endTime, gpuOpCount, activities) ==
  [span |-> [name |-> name, startTime |-> startTime, endTime |-> endTime,
             iteration |-> 0, opCount |-> Len(activities)],
   gpuOpCount |-> gpuOpCount, activities |-> activities]

\* a raw record of the backend (CUpti_Activity and its variants)
RawRecord(kind, correlationId, timestamp, duration) ==
  [kind |-> kind, correlationId |-> correlationId, timestamp |-> timestamp,
   duration |-> duration, deviceId |-> 0, streamId |-> 1, contextId |-> 1,
   externalKind |-> "none", externalId |-> 0, blocklisted |-> FALSE,
   kernelLaunch |-> FALSE]

ExternalCorrelation(externalKind, correlationId, externalId) ==
  [RawRecord("EXTERNAL_CORRELATION", correlationId, 0, 0) EXCEPT
     !.externalKind = externalKind, !.externalId = externalId]

\* what ITraceActivity exposes of a converted record
Wrapper(type, r, resourceId, linked) ==
  [type |-> type, correlationId |-> r.correlationId,
   timestamp |-> r.timestamp, duration |-> r.duration,
   deviceId |-> r.deviceId, resourceId |-> resourceId, linked |-> linked]

\* traceBuffers_->addActivityWrapper
addActivityWrapper(p, w) ==
  [p EXCEPT !.traceBuffers =
     Ptr([Deref(p.traceBuffers) EXCEPT
            !.wrappers = Append(Deref(p.traceBuffers).wrappers, w)])]

\* xxx.log(*logger) / logger.handleActivity
logActivity(p, a) ==
  [p EXCEPT !.logger.activities = Append(p.logger.activities, a)]

(***************************************************************************)
(* Correlation index                                                       *)
(***************************************************************************)
\* faulty variant: both recognised tags are recorded in the Default map
handleCorrelationActivityOneMap(p, correlation) ==
  IF correlation.externalKind \in {"CUSTOM0", "CUSTOM1"}
    THEN [p EXCEPT !.cpuCorrelationMap =
            Put(p.cpuCorrelationMap, correlation.correlationId,
                correlation.externalId)]
    ELSE [p EXCEPT !.ecs.invalid_external_correlation_events = @ + 1]

handleCorrelationActivity(p, correlation) ==
  IF correlation.externalKind = "CUSTOM0"
    THEN [p EXCEPT !.cpuCorrelationMap =
            Put(p.cpuCorrelationMap, correlation.correlationId,
                correlation.externalId)]
  ELSE IF correlation.externalKind = "CUSTOM1"
    THEN [p EXCEPT !.userCorrelationMap =
            Put(p.userCorrelationMap, correlation.correlationId,
                correlation.externalId)]
  ELSE [p EXCEPT !.ecs.invalid_external_correlation_events = @ + 1]

linkedActivity(p, correlationId, correlationMap) ==
  LET key == Int32(correlationId)
  IN  IF key \in DOMAIN correlationMap
          /\ correlationMap[key] \in DOMAIN p.activityMap
        THEN Ptr(p.activityMap[correlationMap[key]])
        ELSE Null

outOfRangeFlag(p, act) ==
  act.timestamp < p.captureWindowStartTime
    \/ (act.timestamp + act.duration) > p.captureWindowEndTime

\* faulty variant: zero-timestamp records are not passed through
outOfRangeNoPassThrough(p, act) == outOfRangeFlag(p, act)

\* the value outOfRange returns
outOfRange(p, act) ==
  LET zero_ts == p.rangeProfilingActive /\ act.timestamp = 0
  IN  ~zero_ts /\ outOfRangeFlag(p, act)

\* faulty variant: a record outside the window is not counted
outOfRangeCountNever(p, act) == p

\* the profiler after an outOfRange call
outOfRangeCount(p, act) ==
  IF outOfRangeFlag(p, act)
    THEN [p EXCEPT !.ecs.out_of_range_events = @ + 1]
    ELSE p

\* faulty variant: the two records are compared in arrival order
checkTimestampOrderNoSwap(p, act1) ==
  IF act1.correlationId \notin DOMAIN p.correlatedCudaActivities
    THEN [p EXCEPT !.correlatedCudaActivities =
            Put(p.correlatedCudaActivities, act1.correlationId, act1)]
  ELSE
    LET act2 == p.correlatedCudaActivities[act1.correlationId]
    IN  IF act2.timestamp = 0 THEN p
        ELSE IF act1.timestamp > act2.timestamp
          THEN [p EXCEPT !.ecs.gpu_and_cpu_op_out_of_order = @ + 1]
          ELSE p

\* faulty variant: a later record takes the place of the registered one
checkTimestampOrderReplace(p, act1) ==
  [checkTimestampOrderNoSwap(p, act1) EXCEPT !.correlatedCudaActivities =
     Put(p.correlatedCudaActivities, act1.correlationId, act1)]

checkTimestampOrder(p, act1) ==
  IF act1.correlationId \notin DOMAIN p.correlatedCudaActivities
    THEN [p EXCEPT !.correlatedCudaActivities =
            Put(p.correlatedCudaActivities, act1.correlationId, act1)]
  ELSE
    LET found == p.correlatedCudaActivities[act1.correlationId]
        swap == found.type = "cuda_runtime"
        a1 == IF swap THEN found ELSE act1
        a2 == IF swap THEN act1 ELSE found
    IN  IF a2.timestamp = 0 THEN p
        ELSE IF a1.timestamp > a2.timestamp
          THEN [p EXCEPT !.ecs.gpu_and_cpu_op_out_of_order = @ + 1]
          ELSE p

(***************************************************************************)
(* Spans                                                                   *)
(***************************************************************************)
\* TraceSpan(gpuOpCount, iteration, name, "GPU: ")
GpuSpan(span, gpuOpCount) ==
  [name |-> span.name, startTime |-> 0, endTime |-> 0,
   iteration |-> span.iteration, opCount |-> gpuOpCount]

\* appends the pair (span, gpu_span) to traceSpans_[span.name]
recordTraceSpan(p, span, gpuOpCount) ==
  LET iterations ==
        IF span.name \in DOMAIN p.traceSpans
          THEN p.traceSpans[span.name] ELSE <<>>
  IN  [p EXCEPT !.traceSpans =
         Put(p.traceSpans, span.name,
             Append(iterations,
                    [cpu |-> span, gpu |-> GpuSpan(span, gpuOpCount)]))]

\* faulty variant: the end of the span is not widened
updateGpuNetSpanStartOnly(p, gpuOp) ==
  IF gpuOp.linked = Null THEN p
  ELSE IF Deref(gpuOp.linked).id \notin DOMAIN p.clientActivityTraceMap THEN p
  ELSE
    LET ref == p.clientActivityTraceMap[Deref(gpuOp.linked).id]
        gpu_span == p.traceSpans[ref.name][ref.index].gpu
        start == IF gpuOp.timestamp < gpu_span.startTime
                      \/ gpu_span.startTime = 0
                   THEN gpuOp.timestamp ELSE gpu_span.startTime
    IN  [p EXCEPT !.traceSpans[ref.name][ref.index].gpu.startTime = start]

updateGpuNetSpan(p, gpuOp) ==
  IF gpuOp.linked = Null THEN p
  ELSE IF Deref(gpuOp.linked).id \notin DOMAIN p.clientActivityTraceMap THEN p
  ELSE
    LET ref == p.clientActivityTraceMap[Deref(gpuOp.linked).id]
        gpu_span == p.traceSpans[ref.name][ref.index].gpu
        start == IF gpuOp.timestamp < gpu_span.startTime
                      \/ gpu_span.startTime = 0
                   THEN gpuOp.timestamp ELSE gpu_span.startTime
        end == Max(gpuOp.timestamp + gpuOp.duration, gpu_span.endTime)
    IN  [p EXCEPT !.traceSpans[ref.name][ref.index].gpu.startTime = start,
                  !.traceSpans[ref.name][ref.index].gpu.endTime = end]

\* createUserGpuSpan
createUserGpuSpan(cpuTraceActivity, gpuTraceActivity) ==
  [id |-> cpuTraceActivity.id, type |-> "gpu_user_annotation",
   startTime |-> gpuTraceActivity.timestamp,
   endTime |-> gpuTraceActivity.timestamp + gpuTraceActivity.duration,
   device |-> gpuTraceActivity.deviceId,
   resource |-> gpuTraceActivity.resourceId]

\* faulty variant: one span per device and CPU activity, whatever the stream
insertOrExtendEventPerDevice(streamSpanMap, cpuTraceActivity, gpuTraceActivity) ==
  LET key == <<gpuTraceActivity.deviceId, 0, cpuTraceActivity.id>>
      span == IF key \in DOMAIN streamSpanMap
                THEN streamSpanMap[key]
                ELSE createUserGpuSpan(cpuTraceActivity, gpuTraceActivity)
  IN  Put(streamSpanMap, key,
          [span EXCEPT !.endTime =
             Max(gpuTraceActivity.timestamp + gpuTraceActivity.duration,
                 span.endTime)])

\* GpuUserEventMap::insertOrExtendEvent on the map streamSpanMap_
insertOrExtendEvent(streamSpanMap, cpuTraceActivity, gpuTraceActivity) ==
  LET key == <<gpuTraceActivity.deviceId, gpuTraceActivity.resourceId,
               cpuTraceActivity.id>>
      span == IF key \in DOMAIN streamSpanMap
                THEN streamSpanMap[key]
                ELSE createUserGpuSpan(cpuTraceActivity, gpuTraceActivity)
      start == IF gpuTraceActivity.timestamp < span.startTime
                    \/ span.startTime = 0
                 THEN gpuTraceActivity.timestamp ELSE span.startTime
      gpu_activity_end ==
        gpuTraceActivity.timestamp + gpuTraceActivity.duration
  IN  Put(streamSpanMap, key,
          [span EXCEPT !.startTime = start,
                       !.endTime = Max(gpu_activity_end, span.endTime)])

(***************************************************************************)
(* Handlers of the raw backend records                                     *)
(***************************************************************************)
handleRuntimeActivity(p, activity) ==
  IF activity.blocklisted
    THEN [p EXCEPT !.ecs.blocklisted_runtime_events = @ + 1]
  ELSE
    LET linked == linkedActivity(p, activity.correlationId, p.cpuCorrelationMap)
        runtime_activity == Wrapper("cuda_runtime", activity, 0, linked)
        p1 == checkTimestampOrder(addActivityWrapper(p, runtime_activity),
                                  runtime_activity)
        p2 == outOfRangeCount(p1, runtime_activity)
    IN  IF outOfRange(p1, runtime_activity) THEN p2
        ELSE logActivity(p2, runtime_activity)

\* the type DriverActivity reports
DriverActivityType == "cuda_driver"

\* activity.kernelLaunch is isKernelLaunchApi(*activity)
handleDriverActivity(p, activity) ==
  IF ~activity.kernelLaunch THEN p
  ELSE
    LET linked == linkedActivity(p, activity.correlationId, p.cpuCorrelationMap)
        runtime_activity == Wrapper(DriverActivityType, activity, 0, linked)
        p1 == checkTimestampOrder(addActivityWrapper(p, runtime_activity),
                                  runtime_activity)
        p2 == outOfRangeCount(p1, runtime_activity)
    IN  IF outOfRange(p1, runtime_activity) THEN p2
        ELSE logActivity(p2, runtime_activity)

\* the user-annotation branch of handleGpuActivity
handleGpuUserAnnotation(p, act) ==
  IF "gpu_user_annotation" \in Deref(p.derivedConfig).profileActivityTypes
       /\ act.correlationId \in DOMAIN p.userCorrelationMap
       /\ p.userCorrelationMap[act.correlationId] \in DOMAIN p.activityMap
    THEN [p EXCEPT !.gpuUserEventMap =
            insertOrExtendEvent(
              p.gpuUserEventMap,
              p.activityMap[p.userCorrelationMap[act.correlationId]], act)]
    ELSE p

\* handleGpuActivity(const T*) and handleGpuActivity(const ITraceActivity&)
handleGpuActivity(p, type, record) ==
  LET linked == linkedActivity(p, record.correlationId, p.cpuCorrelationMap)
      act == Wrapper(type, record, record.streamId, linked)
      p1 == addActivityWrapper(p, act)
      p2 == outOfRangeCount(p1, act)
  IN  IF outOfRange(p1, act) THEN p2
      ELSE
        LET p3 == checkTimestampOrder(p2, act)
            p4 == [p3 EXCEPT !.seenDeviceStreams =
                     @ \cup {<<act.deviceId, act.resourceId>>}]
        IN  handleGpuUserAnnotation(
              updateGpuNetSpan(logActivity(p4, act), act), act)

updateCtxToDeviceId(p, act) ==
  IF act.contextId \in DOMAIN p.ctxToDeviceId THEN p
  ELSE [p EXCEPT !.ctxToDeviceId = Put(@, act.contextId, act.deviceId)]

contextIdtoDeviceId(p, contextId) ==
  IF contextId \in DOMAIN p.ctxToDeviceId THEN p.ctxToDeviceId[contextId]
  ELSE 0

\* a CUpti_ActivitySynchronization record: its type is the kind of wait
SyncRecord(type, correlationId, timestamp, duration) ==
  [RawRecord("SYNCHRONIZATION", correlationId, timestamp, duration) EXCEPT
     !.externalKind = type]

\* a CUpti_ActivityCudaEvent record: externalId holds its eventId
CudaEventRecord(correlationId, eventId) ==
  [RawRecord("CUDA_EVENT", correlationId, 0, 0) EXCEPT !.externalId = eventId]

isWaitEventSync(type) == type = "STREAM_WAIT_EVENT"

isEventSync(type) == type \in {"EVENT_SYNCHRONIZE", "STREAM_WAIT_EVENT"}

handleCudaEventActivity(p, activity) ==
  [p EXCEPT !.waitEventMap =
     Put(@, <<activity.contextId, activity.externalId>>,
         [stream |-> activity.streamId,
          correlationId |-> activity.correlationId])]

\* the log_event functor of handleCudaSyncActivity, run on the profiler as it
\* is when the functor is called; the functor holds device_id and the record
log_event(p, device_id, activity) ==
  LET linked == linkedActivity(p, activity.correlationId, p.cpuCorrelationMap)
      cuda_sync_activity ==
        [Wrapper("cuda_sync", activity, activity.streamId, linked) EXCEPT
           !.deviceId = device_id]
      p1 == addActivityWrapper(p, cuda_sync_activity)
      p2 == outOfRangeCount(p1, cuda_sync_activity)
  IN  IF outOfRange(p1, cuda_sync_activity) THEN p2
      ELSE logActivity(p2, cuda_sync_activity)

\* faulty variant: every synchronization record is deferred
handleCudaSyncActivityDeferAll(p, activity) ==
  [p EXCEPT !.logQueue =
     Append(@, [device |-> contextIdtoDeviceId(p, activity.contextId),
                stream |-> activity.streamId,
                logMe |-> activity])]

handleCudaSyncActivity(p, activity) ==
  IF ~Deref(p.config).activitiesCudaSyncWaitEvents
       /\ isWaitEventSync(activity.externalKind)
    THEN p
  ELSE
    LET device_id == contextIdtoDeviceId(p, activity.contextId)
    IN  IF isWaitEventSync(activity.externalKind)
          THEN [p EXCEPT !.logQueue =
                  Append(@, [device |-> device_id,
                             stream |-> activity.streamId,
                             logMe |-> activity])]
          ELSE log_event(p, device_id, activity)

\* the loop of logDeferredEvents over the entries of logQueue_
RECURSIVE logDeferredEntries(_, _)
logDeferredEntries(p, entries) ==
  IF entries = <<>> THEN p
  ELSE
    LET entry == Head(entries)
        p1 == IF <<entry.device, entry.stream>> \notin p.seenDeviceStreams
                THEN p
                ELSE log_event(p, entry.device, entry.logMe)
    IN  logDeferredEntries(p1, Tail(entries))

logDeferredEvents(p) == logDeferredEntries(p, p.logQueue)

\* the dispatch on record->kind, for the record kinds of this model
handleCuptiActivity(p, record) ==
  CASE record.kind = "EXTERNAL_CORRELATION" ->
         handleCorrelationActivity(p, record)
    [] record.kind = "RUNTIME" -> handleRuntimeActivity(p, record)
    [] record.kind = "CONCURRENT_KERNEL" ->
         updateCtxToDeviceId(handleGpuActivity(p, "kernel", record), record)
    [] record.kind = "MEMCPY" -> handleGpuActivity(p, "gpu_memcpy", record)
    [] record.kind = "SYNCHRONIZATION" -> handleCudaSyncActivity(p, record)
    [] record.kind = "CUDA_EVENT" -> handleCudaEventActivity(p, record)
    [] record.kind = "MEMSET" -> handleGpuActivity(p, "gpu_memset", record)
    [] record.kind = "DRIVER" -> handleDriverActivity(p, record)
    [] OTHER -> [p EXCEPT !.ecs.unexepected_cuda_events = @ + 1]

\* cupti_.processActivities: the handler applied to each record in order
RECURSIVE processActivities(_, _)
processActivities(p, records) ==
  IF records = <<>> THEN p
  ELSE processActivities(handleCuptiActivity(p, Head(records)), Tail(records))

(***************************************************************************)
(* CPU traces                                                              *)
(***************************************************************************)
\* the body of processCpuTrace's loop for activity j of CPU buffer i
processCpuActivity(p, i, j, ref) ==
  LET act == Deref(p.traceBuffers).cpu[i].activities[j]
      selected == act.type \in Deref(p.derivedConfig).profileActivityTypes
      act1 == IF selected /\ (act.endTime - act.startTime) < 0
                THEN [act EXCEPT !.endTime = p.captureWindowEndTime,
                                 !.finished = FALSE]
                ELSE act
      p1 == [p EXCEPT !.traceBuffers =
               Ptr([Deref(p.traceBuffers) EXCEPT
                      !.cpu[i].activities[j] = act1])]
      p2 == IF selected THEN logActivity(p1, act1) ELSE p1
  IN  [p2 EXCEPT !.clientActivityTraceMap = Put(@, act1.id, ref),
                 !.activityMap = Put(@, act1.id, act1)]

RECURSIVE processCpuActivities(_, _, _, _)
processCpuActivities(p, i, j, ref) ==
  IF j > Len(Deref(p.traceBuffers).cpu[i].activities) THEN p
  ELSE processCpuActivities(processCpuActivity(p, i, j, ref), i, j + 1, ref)

processCpuTrace(p, i) ==
  LET cpuTrace == Deref(p.traceBuffers).cpu[i]
  IN  IF cpuTrace.activities = <<>> THEN p
      ELSE
        LET p1 == recordTraceSpan(p, cpuTrace.span, cpuTrace.gpuOpCount)
            ref == [name |-> cpuTrace.span.name,
                    index |-> Len(p1.traceSpans[cpuTrace.span.name])]
            p2 == processCpuActivities(p1, i, 1, ref)
        IN  [p2 EXCEPT !.logger.spans = Append(@, cpuTrace.span)]

RECURSIVE processCpuTraces(_, _)
processCpuTraces(p, i) ==
  IF i > Len(Deref(p.traceBuffers).cpu) THEN p
  ELSE processCpuTraces(processCpuTrace(p, i), i + 1)

(***************************************************************************)
(* Trace assembly                                                          *)
(***************************************************************************)
\* processTraceInternal up to its call of finalizeTrace; gpuRecords is what
\* cupti_.activityBuffers() hands over
assembleTrace(p, gpuRecords) ==
  LET p1 == processCpuTraces(p, 1)
  IN  logDeferredEvents(processActivities(p1, gpuRecords))

\* the GPU spans finalizeTrace passes to the sink
RECURSIVE NonEmptyGpuSpans(_)
NonEmptyGpuSpans(pairs) ==
  IF pairs = <<>> THEN {}
  ELSE (IF Head(pairs).gpu.opCount > 0 THEN {Head(pairs).gpu} ELSE {})
         \cup NonEmptyGpuSpans(Tail(pairs))

\* faulty variant: the counters are cleared with the rest of the trace
finalizeTraceClearsCounts(p) ==
  [p EXCEPT
     !.iterationCountMap = EmptyMap,
     !.overheadInfo = Append(@, "CUPTI Overhead"),
     !.logger.gpuSpans =
       UNION {NonEmptyGpuSpans(p.traceSpans[n]) : n \in DOMAIN p.traceSpans},
     !.logger.userSpans =
       {p.gpuUserEventMap[k] : k \in DOMAIN p.gpuUserEventMap},
     !.logger.finalized = TRUE,
     !.ecs = DefaultErrorCounts,
     !.traceBuffers = Null]

finalizeTrace(p) ==
  [p EXCEPT
     !.iterationCountMap = EmptyMap,
     !.overheadInfo = Append(@, "CUPTI Overhead"),
     !.logger.gpuSpans =
       UNION {NonEmptyGpuSpans(p.traceSpans[n]) : n \in DOMAIN p.traceSpans},
     !.logger.userSpans =
       {p.gpuUserEventMap[k] : k \in DOMAIN p.gpuUserEventMap},
     !.logger.finalized = TRUE,
     !.traceBuffers = Null]

(***************************************************************************)
(* Inputs                                                                  *)
(***************************************************************************)
\* the CPU trace buffers transferCpuTrace is called with
CpuTraces ==
  {CpuTraceBuffer("fwd", 1, 2, 1, <<CpuActivity(1, "cpu_op", 1, 2)>>)}

\* what the backend may have recorded when the GPU buffers are drained
GpuBatches ==
  {<<>>,
   <<ExternalCorrelation("CUSTOM0", 7, 1), RawRecord("RUNTIME", 7, 1, 1),
     RawRecord("CONCURRENT_KERNEL", 7, 2, 1)>>,
   <<ExternalCorrelation("CUSTOM1", 7, 1),
     RawRecord("CONCURRENT_KERNEL", 7, 2, 0)>>,
   <<ExternalCorrelation("CUSTOM2", 7, 1), RawRecord("UNKNOWN", 0, 0, 0)>>}

(***************************************************************************)
(* Thread bookkeeping                                                      *)
(***************************************************************************)
NoLocals == [now |-> 0, nextWakeupTime |-> 0, currentIter |-> -1]

\* the case of the switch a position of performRunLoopStep belongs to
SeenOf(label) ==
  CASE label \in {"Warmup", "WarmupStop", "WarmupReset", "WarmupStart"} ->
         "Warmup"
    [] label \in {"CollectTrace", "Spawn", "collectTrace",
                  "collectTraceLocked", "collectTraceDone"} -> "CollectTrace"
    [] label \in {"ProcessTrace", "assemble", "drain", "finalize", "reset"} ->
         "ProcessTrace"
    [] OTHER -> "none"

NoOp == [op |-> "init", t |-> "none", seen |-> "none", arg |-> 0, ret |-> 0]

Op(name, t) == [NoOp EXCEPT !.op = name, !.t = t]

\* a step inside an operation, or of the environment
Internal == Op("internal", "none")

NoArgs == [now |-> 0]

\* performRunLoopStep returns new_wakeup_time to thread t's caller
Return(t, new_wakeup_time) ==
  /\ pc' = [pc EXCEPT ![t] = "idle"]
  /\ locals' = [locals EXCEPT ![t] = NoLocals]
  /\ lastOp' = [op |-> "return", t |-> t, seen |-> SeenOf(pc[t]),
                arg |-> locals[t].nextWakeupTime, ret |-> new_wakeup_time]

\* thread t moves on inside performRunLoopStep
Goto(t, label) ==
  /\ pc' = [pc EXCEPT ![t] = label]
  /\ lastOp' = Internal

(***************************************************************************)
(* Initial state                                                           *)
(***************************************************************************)
Init ==
  /\ prof = InitProf
  /\ cupti = InitCupti
  /\ mutex = "none"
  /\ pc = [t \in Threads |-> "idle"]
  /\ locals = [t \in Threads |-> NoLocals]
  /\ bgPc = [b \in BgIds |-> "idle"]
  /\ bgArgs = [b \in BgIds |-> NoArgs]
  /\ memPc = "idle"
  /\ clock = 0
  /\ crashed = FALSE
  /\ lastOp = NoOp
  /\ hist = [configures |-> 0]
  /\ result = FALSE

(***************************************************************************)
(* configure                                                               *)
(***************************************************************************)
\* configure past its busy check, up to the canStart check
configureReset(p, config) ==
  [resetTraceData([p EXCEPT !.config = Ptr(config)]) EXCEPT
     !.derivedConfig = Ptr(ConfigDerivedState(config))]

\* configure after canStart held
configureStart(p) ==
  [p EXCEPT
     !.toggleState = TRUE,
     !.sessions = [i \in Profilers |-> "configured"],
     !.rangeProfilingActive =
       "cuda_profiler_range" \in Deref(p.config).selectedActivityTypes,
     !.traceBuffers = Ptr([cpu |-> <<>>, wrappers |-> <<>>]),
     !.captureWindowStartTime = 0,
     !.captureWindowEndTime = 0,
     !.currentRunloopState = "Warmup"]

\* faulty variant: the busy check never fires
configureBusyNever(p) == FALSE

\* the busy check at the head of configure
configureBusy(p) == isActive(p)

Configure(config) ==
  /\ ~crashed
  /\ mutex = "none"
  /\ IF configureBusy(prof)
       THEN /\ lastOp' = Op("configure_busy", "config")
            /\ UNCHANGED <<prof, cupti, hist>>
       ELSE /\ hist.configures < MaxConfigures
            /\ hist' = [hist EXCEPT !.configures = @ + 1]
            /\ IF canStart(ConfigDerivedState(config), clock)
                 THEN /\ prof' = configureStart(configureReset(prof, config))
                      /\ cupti' = cuptiEnable(cupti)
                      /\ lastOp' = Op("configure_started", "config")
                 ELSE /\ prof' = configureReset(prof, config)
                      /\ cupti' = cupti
                      /\ lastOp' = Op("configure_nostart", "config")
  /\ UNCHANGED <<mutex, pc, locals, bgPc, bgArgs, memPc, clock, crashed,
                 result>>

(***************************************************************************)
(* transferCpuTrace                                                        *)
(***************************************************************************)
transferCpuTrace(p, cpuTrace) ==
  LET trace_name == cpuTrace.span.name
      count == IF trace_name \in DOMAIN p.iterationCountMap
                 THEN p.iterationCountMap[trace_name] ELSE 0
      buf == [cpuTrace EXCEPT !.span.iteration = count]
  IN  [p EXCEPT
         !.iterationCountMap = Put(@, trace_name, count + 1),
         !.traceBuffers =
           Ptr([Deref(p.traceBuffers) EXCEPT !.cpu = Append(@, buf)])]

TransferCpuTrace(cpuTrace) ==
  /\ ~crashed
  /\ mutex = "none"
  /\ IF prof.currentRunloopState \notin {"CollectTrace", "ProcessTrace"}
       THEN /\ lastOp' = Op("transfer_discarded", "client")
            /\ UNCHANGED <<prof, crashed>>
       ELSE IF prof.traceBuffers = Null
         \* traceBuffers_->cpu.push_back through a null pointer
         THEN /\ crashed' = TRUE
              /\ prof' = [prof EXCEPT !.iterationCountMap =
                            transferCpuTrace(
                              [prof EXCEPT !.traceBuffers =
                                 Ptr([cpu |-> <<>>, wrappers |-> <<>>])],
                              cpuTrace).iterationCountMap]
              /\ lastOp' = Op("transfer_null", "client")
         ELSE /\ Len(Deref(prof.traceBuffers).cpu) < MaxCpuBuffers
              /\ prof' = transferCpuTrace(prof, cpuTrace)
              /\ lastOp' = Op("transfer_accepted", "client")
              /\ UNCHANGED crashed
  /\ UNCHANGED <<cupti, mutex, pc, locals, bgPc, bgArgs, memPc, clock, hist,
                 result>>

(***************************************************************************)
(* performRunLoopStep                                                      *)
(***************************************************************************)
\* the iteration argument thread t passes
IterArgs(t) == IF t = "poll" THEN {-1} ELSE Iters

\* faulty variant: step() is not turned away in ProcessTrace
returnsAtOnceNoSkip(seen, currentIter) ==
  seen \in {"CollectMemorySnapshot", "WaitForRequest"}

\* the cases of the switch that do nothing: CollectMemorySnapshot,
\* WaitForRequest, and ProcessTrace when called from step()
returnsAtOnce(seen, currentIter) ==
  \/ seen \in {"CollectMemorySnapshot", "WaitForRequest"}
  \/ (seen = "ProcessTrace" /\ currentIter >= 0)

\* entry and the switch on currentRunloopState_
RunLoopBegin(t) ==
  /\ ~crashed
  /\ pc[t] = "idle"
  /\ \E d \in WakeupDeltas, iter \in IterArgs(t) :
       LET seen == prof.currentRunloopState
           call == [NoLocals EXCEPT !.now = clock,
                                    !.nextWakeupTime = clock + d,
                                    !.currentIter = iter]
       IN  IF ~returnsAtOnce(seen, iter)
             THEN /\ locals' = [locals EXCEPT ![t] = call]
                  /\ Goto(t, seen)
             ELSE /\ pc' = pc
                  /\ locals' = locals
                  /\ lastOp' = [op |-> "return", t |-> t, seen |-> seen,
                                arg |-> clock + d, ret |-> clock + d]
  /\ UNCHANGED <<prof, cupti, mutex, bgPc, bgArgs, memPc, clock, crashed,
                 hist, result>>

\* new_wakeup_time of a Warmup tick whose warmup is not done
warmupWaitWakeup(dc, nextWakeupTime) ==
  IF nextWakeupTime > dc.profileStartTime
    THEN dc.profileStartTime ELSE nextWakeupTime

\* new_wakeup_time of a Warmup tick that starts the trace
warmupDoneWakeup(dc, nextWakeupTime) ==
  IF nextWakeupTime > dc.profileEndTime
    THEN dc.profileEndTime ELSE nextWakeupTime

\* new_wakeup_time of a CollectTrace tick whose collection is not done
collectWaitWakeup(dc, now, nextWakeupTime) ==
  IF dc.profilingByIter THEN nextWakeupTime
  ELSE IF now < dc.profileEndTime /\ dc.profileEndTime < nextWakeupTime
    THEN dc.profileEndTime
  ELSE nextWakeupTime

\* faulty variant: warmup_done is acted on before the stopped-early flag
warmupBranchDoneFirst(stopCollection, warmup_done) ==
  IF warmup_done THEN "WarmupStart"
  ELSE IF stopCollection THEN "WarmupStop"
  ELSE "idle"

\* case Warmup: where the tick goes on; the stopped-early flag is tested
\* before warmup_done is acted on
warmupBranch(stopCollection, warmup_done) ==
  IF stopCollection THEN "WarmupStop"
  ELSE IF warmup_done THEN "WarmupStart"
  ELSE "idle"

\* case Warmup: isWarmupDone and the stopped-early flag are evaluated
RunLoopWarmup(t) ==
  /\ ~crashed
  /\ pc[t] = "Warmup"
  /\ LET dc == Deref(prof.derivedConfig)
         warmup_done ==
           isWarmupDone(dc, locals[t].now, locals[t].currentIter)
         branch == warmupBranch(cupti.stopCollection, warmup_done)
     IN  IF branch # "idle"
           THEN /\ Goto(t, branch)
                /\ locals' = locals
           ELSE Return(t, warmupWaitWakeup(dc, locals[t].nextWakeupTime))
  /\ UNCHANGED <<prof, cupti, mutex, bgPc, bgArgs, memPc, clock, crashed,
                 hist, result>>

\* case Warmup, stopped early: mutex_ is taken and stopTraceInternal runs
RunLoopWarmupStop(t) ==
  /\ ~crashed
  /\ pc[t] = "WarmupStop"
  /\ mutex = "none"
  /\ mutex' = t
  /\ prof' = stopTraceInternal(prof, locals[t].now)
  /\ cupti' = cuptiDisable(cupti)
  /\ Goto(t, "WarmupReset")
  /\ UNCHANGED <<locals, bgPc, bgArgs, memPc, clock, crashed, hist, result>>

\* case Warmup, stopped early: resetInternal, mutex_ released, break
RunLoopWarmupReset(t) ==
  /\ ~crashed
  /\ pc[t] = "WarmupReset"
  /\ mutex = t
  /\ mutex' = "none"
  /\ prof' = resetInternal(prof)
  /\ Return(t, locals[t].nextWakeupTime)
  /\ UNCHANGED <<cupti, bgPc, bgArgs, memPc, clock, crashed, hist, result>>

\* case Warmup, warmup done: startTrace(now) under mutex_
RunLoopWarmupStart(t) ==
  /\ ~crashed
  /\ pc[t] = "WarmupStart"
  /\ mutex = "none"
  /\ prof' = startTraceInternal(prof, locals[t].now)
  /\ Return(t, warmupDoneWakeup(Deref(prof.derivedConfig),
                                locals[t].nextWakeupTime))
  /\ UNCHANGED <<cupti, mutex, bgPc, bgArgs, memPc, clock, crashed, hist,
                 result>>

\* the lowest free background task slot
FreeTask == CHOOSE b \in BgIds : bgPc[b] = "idle"
              /\ \A c \in BgIds : bgPc[c] = "idle" => b <= c

\* faulty variant: a task is spawned whether or not one is outstanding
maySpawnAlways(p) == TRUE

\* the test that guards the spawn of collectTraceThread_
maySpawn(p) == p.collectTraceThread = 0 /\ ~p.isCollectingTrace

\* faulty variant: the caller of step() stops the trace itself
runsInBackgroundNever(currentIter) == FALSE

\* currentIter >= 0: the call comes from step() on the application's
\* thread, and the stop is handed to another thread
runsInBackground(currentIter) == currentIter >= 0

\* case CollectTrace: isCollectionDone and the stopped-early flag are
\* evaluated; step() tests whether to spawn, the profiler thread raises
\* isCollectingTrace
RunLoopCollect(t) ==
  /\ ~crashed
  /\ pc[t] = "CollectTrace"
  /\ LET dc == Deref(prof.derivedConfig)
         collection_done ==
           isCollectionDone(dc, locals[t].now, locals[t].currentIter)
     IN  IF collection_done \/ cupti.stopCollection
           THEN IF runsInBackground(locals[t].currentIter)
                  THEN IF maySpawn(prof)
                         THEN /\ Goto(t, "Spawn")
                              /\ locals' = locals
                              /\ prof' = prof
                         ELSE /\ Return(t, locals[t].nextWakeupTime)
                              /\ prof' = prof
                  ELSE /\ Goto(t, "collectTrace")
                       /\ locals' = locals
                       /\ prof' = [prof EXCEPT !.isCollectingTrace = TRUE]
           ELSE /\ Return(t, collectWaitWakeup(dc, locals[t].now,
                                               locals[t].nextWakeupTime))
                /\ prof' = prof
  /\ UNCHANGED <<cupti, mutex, bgPc, bgArgs, memPc, clock, crashed, hist,
                 result>>

\* case CollectTrace from step(): the thread is created under mutex_
RunLoopSpawn(t) ==
  /\ ~crashed
  /\ pc[t] = "Spawn"
  /\ mutex = "none"
  /\ \E b \in BgIds : bgPc[b] = "idle"
  /\ prof' = [prof EXCEPT !.collectTraceThread = FreeTask]
  /\ bgPc' = [bgPc EXCEPT ![FreeTask] = "start"]
  /\ bgArgs' = [bgArgs EXCEPT ![FreeTask] = [now |-> locals[t].now]]
  /\ Return(t, locals[t].nextWakeupTime)
  /\ UNCHANGED <<cupti, mutex, memPc, clock, crashed, hist, result>>

\* collectTrace before it takes mutex_
collectTraceUnlocked(p, c) ==
  IF c.stopCollection
    THEN [p EXCEPT !.ecs.cupti_stopped_early = TRUE]
    ELSE p

\* case CollectTrace on the profiler thread: collectTrace before mutex_
RunLoopCollectTrace(t) ==
  /\ ~crashed
  /\ pc[t] = "collectTrace"
  /\ prof' = collectTraceUnlocked(prof, cupti)
  /\ Goto(t, "collectTraceLocked")
  /\ UNCHANGED <<cupti, mutex, locals, bgPc, bgArgs, memPc, clock, crashed,
                 hist, result>>

\* collectTrace under mutex_: stopTraceInternal
RunLoopCollectTraceLocked(t) ==
  /\ ~crashed
  /\ pc[t] = "collectTraceLocked"
  /\ mutex = "none"
  /\ prof' = stopTraceInternal(prof, locals[t].now)
  /\ cupti' = cuptiDisable(cupti)
  /\ Goto(t, "collectTraceDone")
  /\ UNCHANGED <<mutex, locals, bgPc, bgArgs, memPc, clock, crashed, hist,
                 result>>

\* isCollectingTrace is lowered and the tick returns
RunLoopCollectTraceDone(t) ==
  /\ ~crashed
  /\ pc[t] = "collectTraceDone"
  /\ prof' = [prof EXCEPT !.isCollectingTrace = FALSE]
  /\ Return(t, locals[t].nextWakeupTime)
  /\ UNCHANGED <<cupti, mutex, bgPc, bgArgs, memPc, clock, crashed, hist,
                 result>>

\* case ProcessTrace on the profiler thread: ensureCollectTraceDone
RunLoopJoin(t) ==
  /\ ~crashed
  /\ pc[t] = "ProcessTrace"
  /\ LET h == prof.collectTraceThread
     IN  IF h # 0
           THEN /\ bgPc[h] = "finished"
                /\ bgPc' = [bgPc EXCEPT ![h] = "idle"]
                /\ bgArgs' = [bgArgs EXCEPT ![h] = NoArgs]
                /\ prof' = [prof EXCEPT !.collectTraceThread = 0]
           ELSE UNCHANGED <<bgPc, bgArgs, prof>>
  /\ Goto(t, "assemble")
  /\ UNCHANGED <<cupti, mutex, locals, memPc, clock, crashed, hist, result>>

\* case ProcessTrace: mutex_ is taken and processTraceInternal runs up to
\* finalizeTrace
RunLoopAssemble(t) ==
  /\ ~crashed
  /\ pc[t] = "assemble"
  /\ mutex = "none"
  /\ mutex' = t
  /\ IF prof.traceBuffers = Null
       \* traceBuffers_->cpu read through a null pointer: the process
       \* aborts, or goes on with no buffers to process
       THEN /\ crashed' \in BOOLEAN
            /\ prof' = prof
       ELSE /\ \E gpuRecords \in GpuBatches :
                 prof' = assembleTrace(prof, gpuRecords)
            /\ crashed' = crashed
  /\ Goto(t, "finalize")
  /\ UNCHANGED <<cupti, locals, bgPc, bgArgs, memPc, clock, hist, result>>

\* case ProcessTrace: finalizeTrace, the last call of processTraceInternal
RunLoopFinalize(t) ==
  /\ ~crashed
  /\ pc[t] = "finalize"
  /\ mutex = t
  /\ prof' = finalizeTrace(prof)
  /\ Goto(t, "reset")
  /\ UNCHANGED <<cupti, mutex, locals, bgPc, bgArgs, memPc, clock, crashed,
                 hist, result>>

\* case ProcessTrace: resetInternal, mutex_ released, break.  The sink has
\* written the finalized trace out and holds nothing of it any more.
RunLoopReset(t) ==
  /\ ~crashed
  /\ pc[t] = "reset"
  /\ mutex = t
  /\ mutex' = "none"
  /\ prof' = [resetInternal(prof) EXCEPT !.logger = EmptyLogger]
  /\ Return(t, locals[t].nextWakeupTime)
  /\ UNCHANGED <<cupti, bgPc, bgArgs, memPc, clock, crashed, hist, result>>

(***************************************************************************)
(* The background collectTrace task                                        *)
(***************************************************************************)
BgCollectTrace(b) ==
  /\ ~crashed
  /\ bgPc[b] = "start"
  /\ prof' = collectTraceUnlocked(prof, cupti)
  /\ bgPc' = [bgPc EXCEPT ![b] = "locked"]
  /\ lastOp' = Internal
  /\ UNCHANGED <<cupti, mutex, pc, locals, bgArgs, memPc, clock, crashed,
                 hist, result>>

BgCollectTraceLocked(b) ==
  /\ ~crashed
  /\ bgPc[b] = "locked"
  /\ mutex = "none"
  /\ prof' = stopTraceInternal(prof, bgArgs[b].now)
  /\ cupti' = cuptiDisable(cupti)
  /\ bgPc' = [bgPc EXCEPT ![b] = "finished"]
  /\ lastOp' = Internal
  /\ UNCHANGED <<mutex, pc, locals, bgArgs, memPc, clock, crashed, hist,
                 result>>

(***************************************************************************)
(* performMemoryLoop                                                       *)
(***************************************************************************)
\* performMemoryLoop up to the client's profile; the caller's frame is left
\* to the action that uses this step
MemoryLoopEnter ==
  /\ ~crashed
  /\ memPc = "idle"
  /\ memPc' = "snapshot"
  /\ prof' = [prof EXCEPT !.currentRunloopState = "CollectMemorySnapshot"]
  /\ lastOp' = Internal
  /\ UNCHANGED <<cupti, mutex, pc, locals, bgPc, bgArgs, clock, crashed,
                 hist>>

MemoryLoopBegin == MemoryLoopEnter /\ UNCHANGED result

\* the last statement of performMemoryLoop
MemoryLoopLeave ==
  /\ ~crashed
  /\ memPc = "snapshot"
  /\ memPc' = "idle"
  /\ prof' = [prof EXCEPT !.currentRunloopState = "WaitForRequest"]
  /\ lastOp' = Internal
  /\ UNCHANGED <<cupti, mutex, pc, locals, bgPc, bgArgs, clock, crashed,
                 hist>>

MemoryLoopEnd == MemoryLoopLeave /\ UNCHANGED result

(***************************************************************************)
(* Environment: the backend and the clock                                  *)
(***************************************************************************)
\* the backend runs out of buffers while collection is enabled
BackendStopsEarly ==
  /\ ~crashed
  /\ cupti.enabled
  /\ ~cupti.stopCollection
  /\ cupti' = [cupti EXCEPT !.stopCollection = TRUE]
  /\ lastOp' = Internal
  /\ UNCHANGED <<prof, mutex, pc, locals, bgPc, bgArgs, memPc, clock,
                 crashed, hist, result>>

Tick ==
  /\ ~crashed
  /\ clock < MaxTime
  /\ clock' = clock + 1
  /\ lastOp' = Internal
  /\ UNCHANGED <<prof, cupti, mutex, pc, locals, bgPc, bgArgs, memPc,
                 crashed, hist, result>>

(***************************************************************************)
(* The driver with its threads                                             *)
(***************************************************************************)
Next ==
  \/ \E config \in Configs : Configure(config)
  \/ \E cpuTrace \in CpuTraces : TransferCpuTrace(cpuTrace)
  \/ \E t \in Threads : RunLoopBegin(t)
  \/ \E t \in Threads : RunLoopWarmup(t)
  \/ \E t \in Threads : RunLoopWarmupStop(t)
  \/ \E t \in Threads : RunLoopWarmupReset(t)
  \/ \E t \in Threads : RunLoopWarmupStart(t)
  \/ \E t \in Threads : RunLoopCollect(t)
  \/ \E t \in Threads : RunLoopSpawn(t)
  \/ \E t \in Threads : RunLoopCollectTrace(t)
  \/ \E t \in Threads : RunLoopCollectTraceLocked(t)
  \/ \E t \in Threads : RunLoopCollectTraceDone(t)
  \/ \E t \in Threads : RunLoopJoin(t)
  \/ \E t \in Threads : RunLoopAssemble(t)
  \/ \E t \in Threads : RunLoopFinalize(t)
  \/ \E t \in Threads : RunLoopReset(t)
  \/ \E b \in BgIds : BgCollectTrace(b)
  \/ \E b \in BgIds : BgCollectTraceLocked(b)
  \/ MemoryLoopBegin
  \/ MemoryLoopEnd
  \/ BackendStopsEarly
  \/ Tick

Spec == Init /\ [][Next]_vars

(***************************************************************************)
(* Properties of configure                                                 *)
(***************************************************************************)
\* the outcomes of a configure call, as lastOp records them
ConfigureOps == {"configure_busy", "configure_started", "configure_nostart"}

\* C1: a configure call made while the runloop state is not WaitForRequest
\* changes nothing: the profiler object (state, configuration, derived
\* window, buffers, indices, spans, counters) and the backend are the same
\* after the call as before it.
C1_ConfigureWhileActive ==
  [][(lastOp'.op \in ConfigureOps
        /\ prof.currentRunloopState # "WaitForRequest")
       => (prof' = prof /\ cupti' = cupti)]_vars

\* a configure call has been turned away in the middle of a capture
C1_Witness ==
  /\ lastOp.op = "configure_busy"
  /\ prof.currentRunloopState = "CollectTrace"
  /\ prof.traceBuffers # Null

\* the time-driven configuration cannot start at time now: its start time
\* is already past, or less than the warmup duration away
TooLate(config, now) ==
  /\ ~config.hasProfileStartIteration
  /\ \/ now > config.requestTimestamp
     \/ config.requestTimestamp - now < config.activitiesWarmupDuration

\* C2: from WaitForRequest, configure with a time-driven configuration
\* whose start time is past or less than the warmup away leaves the state at
\* WaitForRequest, does not enable the backend and creates no child session;
\* the state becomes Warmup only when the configuration can start.
C2_ConfigureCannotStart ==
  [][(lastOp'.op \in ConfigureOps
        /\ prof.currentRunloopState = "WaitForRequest")
       => LET config == Deref(prof'.config)
          IN  /\ TooLate(config, clock)
                   => /\ prof'.currentRunloopState = "WaitForRequest"
                      /\ cupti' = cupti
                      /\ prof'.sessions = <<>>
              /\ prof'.currentRunloopState = "Warmup"
                   => ~TooLate(config, clock)]_vars

\* a configure call that came too late has returned
C2_Witness ==
  /\ lastOp.op = "configure_nostart"
  /\ TooLate(Deref(prof.config), clock)
  /\ prof.currentRunloopState = "WaitForRequest"
  /\ ~cupti.enabled

(***************************************************************************)
(* Properties of the runloop                                               *)
(***************************************************************************)
\* C3: the runloop state only ever changes along the edges of the state
\* machine (WaitForRequest -> Warmup, Warmup -> CollectTrace, Warmup ->
\* WaitForRequest, CollectTrace -> ProcessTrace, ProcessTrace ->
\* WaitForRequest, WaitForRequest <-> CollectMemorySnapshot); in particular,
\* and this is the part stated here, ProcessTrace is entered only from
\* CollectTrace, under every interleaving of the polling thread, the caller
\* of step() and the background task.
C3_ProcessTraceOnlyFromCollectTrace ==
  [][(prof'.currentRunloopState = "ProcessTrace"
        /\ prof.currentRunloopState # "ProcessTrace")
       => prof.currentRunloopState = "CollectTrace"]_vars

\* C4: a tick in state Warmup that finds the backend's stopped-early flag set
\* stops and resets, ends with the state WaitForRequest and never starts the
\* trace, whatever its isWarmupDone evaluation gave.
C4_WarmupEarlyStop ==
  [][\A t \in Threads :
       /\ (pc[t] = "Warmup" /\ pc'[t] # pc[t] /\ cupti.stopCollection)
            => pc'[t] = "WarmupStop"
       /\ (pc[t] = "WarmupStop" /\ pc'[t] # pc[t])
            => /\ pc'[t] = "WarmupReset"
               /\ prof'.currentRunloopState # "CollectTrace"
       /\ (pc[t] = "WarmupReset" /\ pc'[t] # pc[t])
            => /\ pc'[t] = "idle"
               /\ prof'.currentRunloopState = "WaitForRequest"]_vars

\* a tick whose warmup is done has found the flag set and has stopped
C4_Witness ==
  \E t \in Threads :
    /\ pc[t] = "WarmupReset"
    /\ isWarmupDone(Deref(prof.derivedConfig), locals[t].now,
                    locals[t].currentIter)

\* the call of thread t is in case CollectTrace and finds the collection
\* complete or stopped early
CompletionSignal(t) ==
  /\ pc[t] = "CollectTrace"
  /\ \/ isCollectionDone(Deref(prof.derivedConfig), locals[t].now,
                         locals[t].currentIter)
     \/ cupti.stopCollection

\* C5: a call in state CollectTrace with currentIter >= 0 that finds the
\* collection complete (or stopped early) never stops the trace itself and
\* never sets the state to ProcessTrace: it spawns the background task or
\* does nothing, and returns.
C5_StepNeverStops ==
  [][\A t \in Threads :
       /\ (CompletionSignal(t) /\ locals[t].currentIter >= 0
             /\ pc'[t] # pc[t])
            => /\ pc'[t] \in {"Spawn", "idle"}
               /\ prof' = prof
               /\ cupti' = cupti
       /\ (pc[t] = "Spawn" /\ pc'[t] # pc[t])
            => /\ pc'[t] = "idle"
               /\ prof'.collectTraceThread # 0
               /\ prof' = [prof EXCEPT
                             !.collectTraceThread = prof'.collectTraceThread]
               /\ cupti' = cupti]_vars

\* step() has just spawned the background task and returned
C5_Witness ==
  /\ lastOp.op = "return"
  /\ lastOp.t = "step"
  /\ lastOp.seen = "CollectTrace"
  /\ prof.collectTraceThread # 0
  /\ bgPc[prof.collectTraceThread] = "start"
  /\ prof.currentRunloopState = "CollectTrace"

\* the background tasks that exist
Tasks == {b \in BgIds : bgPc[b] # "idle"}

\* C6: at every moment at most one background task exists; a completion
\* signal from step() that arrives while a task handle is outstanding spawns
\* no second task and changes no state.
C6_OneBackgroundTask ==
  [][/\ Cardinality(Tasks') <= 1
     /\ \A t \in Threads :
          (CompletionSignal(t) /\ locals[t].currentIter >= 0
             /\ prof.collectTraceThread # 0 /\ pc'[t] # pc[t])
            => /\ pc'[t] = "idle"
               /\ prof' = prof
               /\ cupti' = cupti
               /\ bgPc' = bgPc
               /\ bgArgs' = bgArgs]_vars

\* step() has signalled an early stop while the task was outstanding, and
\* has returned
C6_Witness ==
  /\ lastOp.op = "return"
  /\ lastOp.t = "step"
  /\ lastOp.seen = "CollectTrace"
  /\ cupti.stopCollection
  /\ prof.collectTraceThread # 0
  /\ bgPc[prof.collectTraceThread] \in {"locked", "finished"}

\* C7: a call in state ProcessTrace with currentIter >= 0 returns the
\* nextWakeupTime it was given and leaves the profiler object (state,
\* buffers, indices, spans, counters, task handle), the backend and the
\* background task unchanged; only a call with currentIter < 0 goes on.
C7_StepInProcessTrace ==
  [][\A t \in Threads :
       (pc[t] = "idle" /\ prof.currentRunloopState = "ProcessTrace")
         => /\ pc'[t] # "idle" => locals'[t].currentIter < 0
            /\ (lastOp'.op = "return" /\ lastOp'.t = t)
                 => /\ lastOp'.ret = lastOp'.arg
                    /\ prof' = prof
                    /\ cupti' = cupti
                    /\ bgPc' = bgPc]_vars

\* step() has been turned away in ProcessTrace with the handle outstanding
C7_Witness ==
  /\ lastOp.op = "return"
  /\ lastOp.t = "step"
  /\ lastOp.seen = "ProcessTrace"
  /\ lastOp.ret = lastOp.arg
  /\ prof.currentRunloopState = "ProcessTrace"
  /\ prof.collectTraceThread # 0

\* C8: on a polling tick in state ProcessTrace, trace assembly starts only
\* after any outstanding background task has completed and been joined; the
\* tick then assembles, clears the per-capture state and ends in
\* WaitForRequest.
C8_AssemblyAfterJoin ==
  [][\A t \in Threads :
       /\ (pc[t] = "assemble" /\ pc'[t] # pc[t])
            => /\ Tasks = {}
               /\ prof.collectTraceThread = 0
               /\ pc'[t] = "finalize"
       /\ (pc[t] = "reset" /\ pc'[t] # pc[t])
            => /\ pc'[t] = "idle"
               /\ prof'.currentRunloopState = "WaitForRequest"
               /\ prof'.traceBuffers = Null]_vars

\* the structures that hold one capture's data
PerCapture(p) ==
  [activityMap |-> p.activityMap,
   cpuCorrelationMap |-> p.cpuCorrelationMap,
   userCorrelationMap |-> p.userCorrelationMap,
   correlatedCudaActivities |-> p.correlatedCudaActivities,
   traceSpans |-> p.traceSpans,
   clientActivityTraceMap |-> p.clientActivityTraceMap,
   gpuUserEventMap |-> p.gpuUserEventMap,
   seenDeviceStreams |-> p.seenDeviceStreams,
   logQueue |-> p.logQueue,
   traceBuffers |-> p.traceBuffers,
   iterationCountMap |-> p.iterationCountMap,
   overheadInfo |-> p.overheadInfo,
   ecs |-> p.ecs]

\* C9: after a capture has gone through ProcessTrace (here: one whose
\* assembly handed at least one activity to the sink) and reset, every
\* per-capture structure equals its value before the first configure.
C9_ResetRestoresFirstUse ==
  [][\A t \in Threads :
       (pc[t] = "reset" /\ pc'[t] = "idle"
          /\ prof.logger.finalized /\ prof.logger.activities # <<>>)
         => PerCapture(prof') = PerCapture(InitProf)]_vars

(***************************************************************************)
(* canStart as a function of the configuration and the time                *)
(***************************************************************************)
MaxStart == 3
MaxWarmup == 2

\* the configurations and times canStart is evaluated on
CanStartInputs ==
  [config : {TimeConfig(s, w, 1, DefaultTypes) :
               s \in 0..MaxStart, w \in 0..MaxWarmup}
              \cup {IterConfig(i, 1, DefaultTypes) : i \in 0..MaxStart},
   now : 0..(MaxStart + 1), evaluated : {FALSE}, value : {FALSE}]

InitCanStart ==
  /\ prof = InitProf
  /\ cupti = InitCupti
  /\ mutex = "none"
  /\ pc = [t \in Threads |-> "idle"]
  /\ locals = [t \in Threads |-> NoLocals]
  /\ bgPc = [b \in BgIds |-> "idle"]
  /\ bgArgs = [b \in BgIds |-> NoArgs]
  /\ memPc = "idle"
  /\ clock = 0
  /\ crashed = FALSE
  /\ lastOp = NoOp
  /\ hist = [configures |-> 0]
  /\ result \in CanStartInputs

\* derivedConfig_->canStart(now) on a freshly derived configuration
EvalCanStart ==
  /\ ~result.evaluated
  /\ result' = [result EXCEPT
       !.evaluated = TRUE,
       !.value = canStart(ConfigDerivedState(result.config), result.now)]
  /\ UNCHANGED <<prof, cupti, mutex, pc, locals, bgPc, bgArgs, memPc, clock,
                 crashed, lastOp, hist>>

NextCanStart == EvalCanStart

SpecCanStart == InitCanStart /\ [][NextCanStart]_vars

\* C10: canStart is true for every iteration-driven configuration; for a
\* time-driven one it is false exactly when now is later than the start time
\* or the start time is less than the warmup duration away.
C10_CanStart ==
  result.evaluated
    => LET config == result.config
       IN  IF config.hasProfileStartIteration
             THEN result.value = TRUE
             ELSE result.value = FALSE
                    <=> \/ result.now > config.requestTimestamp
                        \/ config.requestTimestamp - result.now
                             < config.activitiesWarmupDuration

\* canStart has accepted a time-driven start at now with zero warmup
C10_Witness ==
  /\ result.evaluated
  /\ ~result.config.hasProfileStartIteration
  /\ result.config.requestTimestamp = result.now
  /\ result.config.activitiesWarmupDuration = 0
  /\ result.value

(***************************************************************************)
(* Function specifications: the state outside `result` stays as constructed *)
(***************************************************************************)
\* every variable but result is as after construction
Constructed ==
  /\ prof = InitProf
  /\ cupti = InitCupti
  /\ mutex = "none"
  /\ pc = [t \in Threads |-> "idle"]
  /\ locals = [t \in Threads |-> NoLocals]
  /\ bgPc = [b \in BgIds |-> "idle"]
  /\ bgArgs = [b \in BgIds |-> NoArgs]
  /\ memPc = "idle"
  /\ clock = 0
  /\ crashed = FALSE
  /\ lastOp = NoOp
  /\ hist = [configures |-> 0]

\* only result changes
OnlyResult ==
  UNCHANGED <<prof, cupti, mutex, pc, locals, bgPc, bgArgs, memPc, clock,
              crashed, lastOp, hist>>

(***************************************************************************)
(* isWarmupDone / isCollectionDone as functions                            *)
(***************************************************************************)
MaxDuration == 2
MaxIter == 3

\* the configurations, times and iterations the two tests are evaluated on
DoneInputs ==
  [config : {TimeConfig(s, 0, d, DefaultTypes) :
               s \in 0..MaxStart, d \in 0..MaxDuration}
              \cup {IterConfig(i, r, DefaultTypes) :
                      i \in 0..MaxIter, r \in 0..MaxDuration},
   now : 0..(MaxStart + MaxDuration), currentIter : -1..(MaxIter + 1),
   evaluated : {FALSE}, warmup_done : {FALSE}, collection_done : {FALSE}]

InitDone == Constructed /\ result \in DoneInputs

\* derivedConfig_->isWarmupDone / isCollectionDone(now, currentIter)
EvalDone ==
  /\ ~result.evaluated
  /\ LET dc == ConfigDerivedState(result.config)
     IN  result' = [result EXCEPT
           !.evaluated = TRUE,
           !.warmup_done = isWarmupDone(dc, result.now, result.currentIter),
           !.collection_done =
             isCollectionDone(dc, result.now, result.currentIter)]
  /\ OnlyResult

NextDone == EvalDone

SpecDone == InitDone /\ [][NextDone]_vars

\* C11: isWarmupDone and isCollectionDone are false for every mixed call (a
\* time-driven capture asked with currentIter >= 0, an iteration-driven one
\* asked with currentIter < 0); otherwise a time-driven capture compares now
\* with the start time / start time + duration and an iteration-driven one
\* compares currentIter with the start iteration / start iteration + run
\* length, with >=.
C11_DoneTests ==
  result.evaluated
    => LET config == result.config
           byIter == config.hasProfileStartIteration
           fromStep == result.currentIter >= 0
       IN  IF byIter # fromStep
             THEN ~result.warmup_done /\ ~result.collection_done
           ELSE IF byIter
             THEN /\ result.warmup_done
                       = (result.currentIter >= config.profileStartIteration)
                  /\ result.collection_done
                       = (result.currentIter >=
                            config.profileStartIteration
                              + config.activitiesRunIterations)
           ELSE /\ result.warmup_done
                     = (result.now >= config.requestTimestamp)
                /\ result.collection_done
                     = (result.now >= config.requestTimestamp
                                        + config.activitiesDuration)

\* a time-driven capture whose start has passed has told step() "not done"
C11_Witness ==
  /\ result.evaluated
  /\ ~result.config.hasProfileStartIteration
  /\ result.currentIter >= 0
  /\ result.now >= result.config.requestTimestamp
       + result.config.activitiesDuration
  /\ ~result.warmup_done
  /\ ~result.collection_done

(***************************************************************************)
(* outOfRange as a function of the record and the capture window           *)
(***************************************************************************)
MaxStamp == 3
MaxSpan == 2

\* the windows, records and range-profiling modes outOfRange is called on
OutOfRangeInputs ==
  [captureWindowStartTime : 0..(MaxStamp - 1),
   captureWindowEndTime : 0..MaxStamp,
   timestamp : 0..MaxStamp, duration : 0..MaxSpan,
   rangeProfilingActive : BOOLEAN,
   evaluated : {FALSE}, value : {FALSE}, out_of_range_events : {0}]

InitOutOfRange == Constructed /\ result \in OutOfRangeInputs

\* outOfRange(act) on a profiler with the given window
EvalOutOfRange ==
  /\ ~result.evaluated
  /\ LET p == [InitProf EXCEPT
                 !.captureWindowStartTime = result.captureWindowStartTime,
                 !.captureWindowEndTime = result.captureWindowEndTime,
                 !.rangeProfilingActive = result.rangeProfilingActive]
         act == Wrapper("kernel",
                        RawRecord("CONCURRENT_KERNEL", 1, result.timestamp,
                                  result.duration), 1, Null)
     IN  result' = [result EXCEPT
           !.evaluated = TRUE,
           !.value = outOfRange(p, act),
           !.out_of_range_events =
             outOfRangeCount(p, act).ecs.out_of_range_events]
  /\ OnlyResult

NextOutOfRange == EvalOutOfRange

SpecOutOfRange == InitOutOfRange /\ [][NextOutOfRange]_vars

\* C12: outOfRange is false when windowStart <= timestamp and timestamp +
\* duration <= windowEnd and true otherwise, except that it is false for
\* every record with timestamp 0 while range profiling is active.
C12_OutOfRange ==
  result.evaluated
    => IF result.rangeProfilingActive /\ result.timestamp = 0
         THEN result.value = FALSE
         ELSE result.value
                = ~(/\ result.captureWindowStartTime <= result.timestamp
                    /\ result.timestamp + result.duration
                         <= result.captureWindowEndTime)

\* a zero-timestamp record outside the window has been passed through
C12_Witness ==
  /\ result.evaluated
  /\ result.rangeProfilingActive
  /\ result.timestamp = 0
  /\ result.captureWindowStartTime > 0
  /\ ~result.value

(***************************************************************************)
(* checkTimestampOrder on a runtime record and a GPU record                *)
(***************************************************************************)
MaxCorrelationId == 2

\* a runtime-call record and a GPU record with one correlation id, and the
\* order in which they arrive
OrderInputs ==
  [correlationId : 1..MaxCorrelationId,
   runtimeTimestamp : 0..MaxStamp, gpuTimestamp : 0..MaxStamp,
   first : {"runtime", "gpu"}, passed : {0}]

\* the record of the pair that arrives as number n
OrderRecord(in, n) ==
  IF (in.first = "runtime") = (n = 1)
    THEN Wrapper("cuda_runtime",
                 RawRecord("RUNTIME", in.correlationId, in.runtimeTimestamp,
                           1), 1, Null)
    ELSE Wrapper("kernel",
                 RawRecord("CONCURRENT_KERNEL", in.correlationId,
                           in.gpuTimestamp, 1), 1, Null)

InitOrder == Constructed /\ result \in OrderInputs

\* checkTimestampOrder(act1) for the record that arrives first
PassFirst ==
  /\ result.passed = 0
  /\ prof' = checkTimestampOrder(prof, OrderRecord(result, 1))
  /\ result' = [result EXCEPT !.passed = 1]
  /\ UNCHANGED <<cupti, mutex, pc, locals, bgPc, bgArgs, memPc, clock,
                 crashed, lastOp, hist>>

\* checkTimestampOrder(act1) for the record that arrives second
PassSecond ==
  /\ result.passed = 1
  /\ prof' = checkTimestampOrder(prof, OrderRecord(result, 2))
  /\ result' = [result EXCEPT !.passed = 2]
  /\ UNCHANGED <<cupti, mutex, pc, locals, bgPc, bgArgs, memPc, clock,
                 crashed, lastOp, hist>>

NextOrder == PassFirst \/ PassSecond

SpecOrder == InitOrder /\ [][NextOrder]_vars

\* C13: for a runtime-call record and a GPU record with one correlation id,
\* in either arrival order the out-of-order counter ends incremented by one
\* exactly when the GPU timestamp is non-zero and the runtime timestamp is
\* greater than the GPU timestamp, and unchanged otherwise.
C13_OrderVerdict ==
  result.passed = 2
    => prof.ecs.gpu_and_cpu_op_out_of_order
         = IF result.gpuTimestamp # 0
                /\ result.runtimeTimestamp > result.gpuTimestamp
             THEN 1 ELSE 0

\* the GPU record arrived first and the pair was counted out of order
C13_Witness ==
  /\ result.passed = 2
  /\ result.first = "gpu"
  /\ result.runtimeTimestamp > result.gpuTimestamp
  /\ prof.ecs.gpu_and_cpu_op_out_of_order = 1

(***************************************************************************)
(* The deferred wait-event synchronization records of one capture          *)
(***************************************************************************)
MaxBatch == 3

Devices == {0, 1}
Streams == {1, 2}
GpuKinds == {"CONCURRENT_KERNEL", "MEMCPY", "MEMSET"}

\* a CUDA context lives on one device: context c is the context of device
\* c - 1, and every record of the context carries that device
ContextOf(d) == d + 1
DeviceOf(c) == c - 1

\* the records the backend may hold as record number n of the capture: GPU
\* work and wait-event synchronizations, inside the capture window
\* (timestamp 1) and past its end (timestamp MaxStamp)
DeferredRecords(n) ==
  {[RawRecord(k, n, ts, 1) EXCEPT
      !.deviceId = d, !.contextId = ContextOf(d), !.streamId = s] :
     k \in GpuKinds, d \in Devices, s \in Streams, ts \in {1, MaxStamp}}
    \cup {[SyncRecord("STREAM_WAIT_EVENT", n, ts, 1) EXCEPT
             !.contextId = ContextOf(d), !.streamId = s] :
            d \in Devices, s \in Streams, ts \in {1, MaxStamp}}

\* a capture whose collection has ended, with the window [1, MaxStamp], at
\* the point where processTraceInternal starts draining the GPU buffers
InitDeferred ==
  /\ \E b \in BOOLEAN :
       prof = [configureStart(
                 configureReset(InitProf,
                   [TimeConfig(1, 0, 1, DefaultTypes) EXCEPT
                      !.activitiesCudaSyncWaitEvents = b]))
               EXCEPT !.captureWindowStartTime = 1,
                      !.captureWindowEndTime = MaxStamp,
                      !.currentRunloopState = "ProcessTrace"]
  /\ cupti = InitCupti
  /\ mutex = "none"
  /\ pc = [t \in Threads |-> "idle"]
  /\ locals = [t \in Threads |-> NoLocals]
  /\ bgPc = [b \in BgIds |-> "idle"]
  /\ bgArgs = [b \in BgIds |-> NoArgs]
  /\ memPc = "idle"
  /\ clock = 0
  /\ crashed = FALSE
  /\ lastOp = NoOp
  /\ hist = [configures |-> 1]
  /\ result = [drained |-> <<>>, flushed |-> FALSE]

\* cupti_.processActivities hands the next record to handleCuptiActivity
DrainRecord ==
  /\ ~result.flushed
  /\ Len(result.drained) < MaxBatch
  /\ \E record \in DeferredRecords(Len(result.drained) + 1) :
       /\ prof' = handleCuptiActivity(prof, record)
       /\ result' = [result EXCEPT !.drained = Append(@, record)]
  /\ UNCHANGED <<cupti, mutex, pc, locals, bgPc, bgArgs, memPc, clock,
                 crashed, lastOp, hist>>

\* logDeferredEvents() after the buffers are drained
FlushDeferred ==
  /\ ~result.flushed
  /\ prof' = logDeferredEvents(prof)
  /\ result' = [result EXCEPT !.flushed = TRUE]
  /\ UNCHANGED <<cupti, mutex, pc, locals, bgPc, bgArgs, memPc, clock,
                 crashed, lastOp, hist>>

NextDeferred == DrainRecord \/ FlushDeferred

SpecDeferred == InitDeferred /\ [][NextDeferred]_vars

\* record number n of the capture lies inside the capture window
InWindow(n) == result.drained[n].timestamp = 1

\* the sink has been handed the synchronization record number n
SyncEmitted(n) ==
  \E k \in DOMAIN prof.logger.activities :
     /\ prof.logger.activities[k].type = "cuda_sync"
     /\ prof.logger.activities[k].correlationId = n

\* GPU work was observed on the device and stream of sync record number n
WorkObserved(n) ==
  \E m \in DOMAIN result.drained :
     /\ result.drained[m].kind \in GpuKinds
     /\ InWindow(m)
     /\ result.drained[m].deviceId = DeviceOf(result.drained[n].contextId)
     /\ result.drained[m].streamId = result.drained[n].streamId

\* C14: once the GPU buffers are drained and the deferred queue is flushed,
\* a wait-event synchronization record of device d and stream s has been
\* emitted to the sink if and only if a kernel, memcpy or memset record for
\* (d, s) was observed in the capture, before or after the synchronization
\* record; stated for captures that enable wait-event records and for
\* records inside the capture window.
C14_DeferredSync ==
  (result.flushed /\ Deref(prof.config).activitiesCudaSyncWaitEvents)
    => \A n \in DOMAIN result.drained :
         (result.drained[n].kind = "SYNCHRONIZATION" /\ InWindow(n))
           => (SyncEmitted(n) <=> WorkObserved(n))

(***************************************************************************)
(* Span widening over the GPU records of one span pair                     *)
(***************************************************************************)
\* the GPU records linked to one CPU span: kernel number n of the capture,
\* on device 0 and stream 1
SpanRecords(n) ==
  {RawRecord("CONCURRENT_KERNEL", n, ts, d) :
     ts \in 0..MaxStamp, d \in 0..MaxSpan}

\* the batches of records the backend may hold for the span
SpanBatches ==
  UNION {[1..len -> UNION {SpanRecords(n) : n \in 1..MaxBatch}] :
           len \in 0..MaxBatch}

SpanInputs ==
  {[records |-> b, drained |-> {}] :
     b \in {c \in SpanBatches :
              \A n \in DOMAIN c : c[n].correlationId = n}}

\* the external-correlation records that link GPU record n to CPU
\* activity 1 on both channels
RECURSIVE SpanCorrelations(_)
SpanCorrelations(n) ==
  IF n = 0 THEN <<>>
  ELSE SpanCorrelations(n - 1)
         \o <<ExternalCorrelation("CUSTOM0", n, 1),
              ExternalCorrelation("CUSTOM1", n, 1)>>

\* a capture in trace assembly, with one CPU span of one activity already
\* processed and the correlation records drained; range tells whether the
\* capture selected range profiling
SpanCapture(range) ==
  LET types == DefaultTypes \cup {"gpu_user_annotation"}
                 \cup (IF range THEN {"cuda_profiler_range"} ELSE {})
      p0 == configureStart(
              configureReset(InitProf, TimeConfig(1, 0, 1, types)))
      p1 == [p0 EXCEPT
               !.traceBuffers =
                 Ptr([cpu |-> <<CpuTraceBuffer("fwd", 1, 2, 1,
                                  <<CpuActivity(1, "cpu_op", 1, 2)>>)>>,
                      wrappers |-> <<>>]),
               !.captureWindowStartTime = 1,
               !.captureWindowEndTime = MaxStamp + MaxSpan,
               !.currentRunloopState = "ProcessTrace"]
  IN  processActivities(processCpuTraces(p1, 1), SpanCorrelations(MaxBatch))

InitSpan ==
  /\ \E range \in BOOLEAN : prof = SpanCapture(range)
  /\ cupti = InitCupti
  /\ mutex = "none"
  /\ pc = [t \in Threads |-> "idle"]
  /\ locals = [t \in Threads |-> NoLocals]
  /\ bgPc = [b \in BgIds |-> "idle"]
  /\ bgArgs = [b \in BgIds |-> NoArgs]
  /\ memPc = "idle"
  /\ clock = 0
  /\ crashed = FALSE
  /\ lastOp = NoOp
  /\ hist = [configures |-> 1]
  /\ result \in SpanInputs

\* the backend hands over one of the records not yet drained
DrainSpanRecord ==
  /\ \E n \in DOMAIN result.records \ result.drained :
       /\ prof' = handleCuptiActivity(prof, result.records[n])
       /\ result' = [result EXCEPT !.drained = @ \cup {n}]
  /\ UNCHANGED <<cupti, mutex, pc, locals, bgPc, bgArgs, memPc, clock,
                 crashed, lastOp, hist>>

NextSpan == DrainSpanRecord

SpecSpan == InitSpan /\ [][NextSpan]_vars

\* start and end of the GPU span of the pair and of the user-annotation
\* span, as left by the span-widening updates
SpanTimes(p) ==
  [gpu |-> <<p.traceSpans["fwd"][1].gpu.startTime,
             p.traceSpans["fwd"][1].gpu.endTime>>,
   user |-> {<<p.gpuUserEventMap[k].startTime, p.gpuUserEventMap[k].endTime>> :
               k \in DOMAIN p.gpuUserEventMap}]

\* C15: for the GPU records linked to one span pair, the span-widening
\* updates (updateGpuNetSpan and GpuUserEventMap::insertOrExtendEvent) leave
\* the same start and end time whatever the order the records are applied
\* in: every order ends with the times of the order of the batch.
C15_SpanOrderIndependent ==
  result.drained = DOMAIN result.records
    => SpanTimes(prof)
         = SpanTimes(processActivities(
                       SpanCapture(prof.rangeProfilingActive),
                       result.records))

(***************************************************************************)
(* toggleCollectionDynamic and its caller                                  *)
(***************************************************************************)
MaxToggles == 2

\* The frame of the thread that calls toggleCollectionDynamic, kept in
\* result: its position, its argument, the backend calls it has issued in
\* the current call, the number of calls made, and what the last call that
\* returned found and left.
NoToggle ==
  [pc |-> "idle", enable |-> FALSE, calls |-> <<>>, toggles |-> 0,
   before |-> FALSE, noop |-> FALSE]

\* faulty variant: the flag is not compared with the request
toggleNoOpNever(p, enable) == FALSE

\* the test at the head of toggleCollectionDynamic
toggleNoOp(p, enable) == p.toggleState = enable

InitToggle ==
  /\ prof = InitProf
  /\ cupti = InitCupti
  /\ mutex = "none"
  /\ pc = [t \in Threads |-> "idle"]
  /\ locals = [t \in Threads |-> NoLocals]
  /\ bgPc = [b \in BgIds |-> "idle"]
  /\ bgArgs = [b \in BgIds |-> NoArgs]
  /\ memPc = "idle"
  /\ clock = 0
  /\ crashed = FALSE
  /\ lastOp = NoOp
  /\ hist = [configures |-> 0]
  /\ result = NoToggle

\* toggleState_.load() == enable, and toggleState_.store(enable) if not.
\* The load and the store are one step: the other writers of the flag store
\* constants, and every order of their stores with this pair leaves a flag
\* that one of the orders of the merged step leaves.
ToggleBegin ==
  /\ ~crashed
  /\ result.pc = "idle"
  /\ result.toggles < MaxToggles
  /\ \E enable \in BOOLEAN :
       IF toggleNoOp(prof, enable)
         THEN /\ result' = [result EXCEPT !.enable = enable, !.calls = <<>>,
                                          !.toggles = @ + 1,
                                          !.before = prof.toggleState,
                                          !.noop = TRUE]
              /\ prof' = prof
         ELSE /\ result' = [result EXCEPT !.pc = "sync", !.enable = enable,
                                          !.calls = <<>>, !.toggles = @ + 1,
                                          !.before = prof.toggleState,
                                          !.noop = FALSE]
              /\ prof' = [prof EXCEPT !.toggleState = enable]
  /\ lastOp' = Internal
  /\ UNCHANGED <<cupti, mutex, pc, locals, bgPc, bgArgs, memPc, clock,
                 crashed, hist>>

\* CUDA_CALL(cudaDeviceSynchronize())
ToggleSync ==
  /\ ~crashed
  /\ result.pc = "sync"
  /\ result' = [result EXCEPT !.pc = "flush",
                              !.calls = Append(@, "cudaDeviceSynchronize")]
  /\ lastOp' = Internal
  /\ UNCHANGED <<prof, cupti, mutex, pc, locals, bgPc, bgArgs, memPc, clock,
                 crashed, hist>>

\* cupti_.flushActivities()
ToggleFlush ==
  /\ ~crashed
  /\ result.pc = "flush"
  /\ result' = [result EXCEPT !.pc = "switch",
                              !.calls = Append(@, "flushActivities")]
  /\ lastOp' = Internal
  /\ UNCHANGED <<prof, cupti, mutex, pc, locals, bgPc, bgArgs, memPc, clock,
                 crashed, hist>>

\* cupti_.enableCuptiActivities / disableCuptiActivities with
\* derivedConfig_->profileActivityTypes()
ToggleSwitch ==
  /\ ~crashed
  /\ result.pc = "switch"
  /\ IF prof.derivedConfig = Null
       \* derivedConfig_ read through a null pointer: the process aborts,
       \* or goes on to the backend call with whatever was read
       THEN crashed' \in BOOLEAN
       ELSE crashed' = crashed
  /\ IF crashed'
       THEN UNCHANGED <<cupti, result>>
       ELSE /\ cupti' = IF result.enable THEN cuptiEnable(cupti)
                                         ELSE cuptiDisable(cupti)
            /\ result' = [result EXCEPT
                            !.pc = "idle",
                            !.calls =
                              Append(@, IF result.enable
                                          THEN "enableCuptiActivities"
                                          ELSE "disableCuptiActivities")]
  /\ lastOp' = Internal
  /\ UNCHANGED <<prof, mutex, pc, locals, bgPc, bgArgs, memPc, clock, hist>>

\* case ProcessTrace: mutex_ is taken and processTraceInternal is entered
RunLoopAssembleLock(t) ==
  /\ ~crashed
  /\ pc[t] = "assemble"
  /\ mutex = "none"
  /\ mutex' = t
  /\ Goto(t, "drain")
  /\ UNCHANGED <<prof, cupti, locals, bgPc, bgArgs, memPc, clock, crashed,
                 hist, result>>

\* processTraceInternal up to finalizeTrace: the CPU traces are processed
\* and the raw GPU buffers drained
RunLoopDrain(t) ==
  /\ ~crashed
  /\ pc[t] = "drain"
  /\ mutex = t
  /\ IF prof.traceBuffers = Null
       THEN /\ crashed' \in BOOLEAN
            /\ prof' = prof
       ELSE /\ \E gpuRecords \in GpuBatches :
                 prof' = assembleTrace(prof, gpuRecords)
            /\ crashed' = crashed
  /\ Goto(t, "finalize")
  /\ UNCHANGED <<cupti, mutex, locals, bgPc, bgArgs, memPc, clock, hist,
                 result>>

\* the profiler thread, configure and the caller of toggleCollectionDynamic
NextToggle ==
  \/ \E config \in Configs : Configure(config)
  \/ RunLoopBegin("poll")
  \/ RunLoopWarmup("poll")
  \/ RunLoopWarmupStart("poll")
  \/ RunLoopCollect("poll")
  \/ RunLoopCollectTrace("poll")
  \/ RunLoopCollectTraceLocked("poll")
  \/ RunLoopCollectTraceDone("poll")
  \/ RunLoopJoin("poll")
  \/ RunLoopAssembleLock("poll")
  \/ RunLoopDrain("poll")
  \/ RunLoopFinalize("poll")
  \/ RunLoopReset("poll")
  \/ ToggleBegin
  \/ ToggleSync
  \/ ToggleFlush
  \/ ToggleSwitch
  \/ Tick

SpecToggle == InitToggle /\ [][NextToggle]_vars

\* a thread is draining the raw GPU buffers in trace assembly
Draining == \E t \in Threads : pc[t] = "drain"

\* the step is a call that enables or disables collection in the backend or
\* synchronizes the device
BackendCall ==
  \/ cupti'.enabled # cupti.enabled
  \/ (result'.calls # result.calls /\ result'.calls # <<>>)

\* C16: no call that enables or disables backend activity collection or
\* synchronizes the device (configure's enable, stopTraceInternal's disable,
\* toggleCollectionDynamic) is executed while another thread is draining
\* the raw GPU buffers in trace assembly.
C16_NoBackendCallWhileDraining ==
  [][BackendCall => ~Draining]_vars

\* the step is a step of the toggleCollectionDynamic call
ToggleStep == result' # result

\* the backend call a step of toggleCollectionDynamic has issued
IssuedCall == result'.calls[Len(result'.calls)]

CaptureStates == {"Warmup", "CollectTrace", "ProcessTrace"}

\* The frame of the performMemoryLoop caller, kept in result: the runloop
\* state and the per-capture data the profiler held when the request was
\* made.
NoRequest == [seen |-> "none", data |-> PerCapture(InitProf)]

InitMemory ==
  /\ prof = InitProf
  /\ cupti = InitCupti
  /\ mutex = "none"
  /\ pc = [t \in Threads |-> "idle"]
  /\ locals = [t \in Threads |-> NoLocals]
  /\ bgPc = [b \in BgIds |-> "idle"]
  /\ bgArgs = [b \in BgIds |-> NoArgs]
  /\ memPc = "idle"
  /\ clock = 0
  /\ crashed = FALSE
  /\ lastOp = NoOp
  /\ hist = [configures |-> 0]
  /\ result = NoRequest

\* performMemoryLoop is called
MemoryLoopRequest ==
  /\ MemoryLoopEnter
  /\ result' = [seen |-> prof.currentRunloopState, data |-> PerCapture(prof)]

\* performMemoryLoop returns
MemoryLoopComplete ==
  /\ MemoryLoopLeave
  /\ result' = result

\* configure, the profiler thread, the backend and the caller of
\* performMemoryLoop
NextMemory ==
  \/ \E config \in Configs : Configure(config)
  \/ \E cpuTrace \in CpuTraces : TransferCpuTrace(cpuTrace)
  \/ RunLoopBegin("poll")
  \/ RunLoopWarmup("poll")
  \/ RunLoopWarmupStop("poll")
  \/ RunLoopWarmupReset("poll")
  \/ RunLoopWarmupStart("poll")
  \/ RunLoopCollect("poll")
  \/ RunLoopCollectTrace("poll")
  \/ RunLoopCollectTraceLocked("poll")
  \/ RunLoopCollectTraceDone("poll")
  \/ RunLoopJoin("poll")
  \/ RunLoopAssemble("poll")
  \/ RunLoopFinalize("poll")
  \/ RunLoopReset("poll")
  \/ MemoryLoopRequest
  \/ MemoryLoopComplete
  \/ BackendStopsEarly
  \/ Tick

SpecMemory == InitMemory /\ [][NextMemory]_vars

\* C18: a memory-snapshot request does not disturb a capture: when the
\* runloop state is Warmup, CollectTrace or ProcessTrace at the request,
\* the request completes with that state and the same per-capture data;
\* CollectMemorySnapshot is entered only by the request and is left only
\* for WaitForRequest.
C18_MemoryLoopLeavesCapture ==
  [][/\ ((memPc = "snapshot" /\ memPc' = "idle"
             /\ result.seen \in CaptureStates)
            => (/\ prof'.currentRunloopState = result.seen
                /\ PerCapture(prof') = result.data))
      /\ ((prof.currentRunloopState # "CollectMemorySnapshot"
             /\ prof'.currentRunloopState = "CollectMemorySnapshot")
            => (memPc = "idle" /\ memPc' = "snapshot"))
      /\ ((prof.currentRunloopState = "CollectMemorySnapshot"
             /\ prof'.currentRunloopState # "CollectMemorySnapshot")
            => prof'.currentRunloopState = "WaitForRequest")]_vars

(***************************************************************************)
(* A capture the backend stops early, under continued polling              *)
(***************************************************************************)
\* a step of the profiler thread's loop, which calls performRunLoopStep
\* again and again
PollStep ==
  \/ RunLoopBegin("poll")
  \/ RunLoopWarmup("poll")
  \/ RunLoopWarmupStop("poll")
  \/ RunLoopWarmupReset("poll")
  \/ RunLoopWarmupStart("poll")
  \/ RunLoopCollect("poll")
  \/ RunLoopCollectTrace("poll")
  \/ RunLoopCollectTraceLocked("poll")
  \/ RunLoopCollectTraceDone("poll")
  \/ RunLoopJoin("poll")
  \/ RunLoopAssemble("poll")
  \/ RunLoopFinalize("poll")
  \/ RunLoopReset("poll")

\* the profiler thread keeps polling and a performMemoryLoop call returns
SpecMemoryFair ==
  SpecMemory /\ WF_vars(PollStep) /\ WF_vars(MemoryLoopComplete)

\* the backend's stopped-early flag is set during Warmup or CollectTrace
StoppedEarly ==
  /\ cupti.stopCollection
  /\ prof.currentRunloopState \in {"Warmup", "CollectTrace"}

\* the capture has been stopped and reset and a configure would be accepted
Recovered ==
  /\ prof.currentRunloopState = "WaitForRequest"
  /\ ~cupti.enabled
  /\ prof.traceBuffers = Null
  /\ \A i \in DOMAIN prof.sessions : prof.sessions[i] = "stopped"
  /\ ~configureBusy(prof)

\* C19: if the backend's stopped-early flag becomes set while a capture is
\* in Warmup or CollectTrace, then under continued polling ticks the
\* capture is stopped (backend disabled, child sessions stopped), its
\* per-capture state is reset and the runloop state eventually becomes
\* WaitForRequest, from which a new configure is accepted.
C19_EarlyStopRecovers == StoppedEarly ~> Recovered

(***************************************************************************)
(* The two channels of external correlations                               *)
(***************************************************************************)
MaxExternalId == 2

\* the channel tags of CUpti_ExternalCorrelationKind the backend may send:
\* CUSTOM0 is the Default channel, CUSTOM1 the User channel
ExternalKinds == {"CUSTOM0", "CUSTOM1", "CUSTOM2", "UNKNOWN"}

\* the external-correlation record number n of a capture
CorrelationRecords ==
  {ExternalCorrelation(k, c, e) :
     k \in ExternalKinds, c \in 1..MaxCorrelationId, e \in 1..MaxExternalId}

InitCorrelation ==
  /\ prof = InitProf
  /\ cupti = InitCupti
  /\ mutex = "none"
  /\ pc = [t \in Threads |-> "idle"]
  /\ locals = [t \in Threads |-> NoLocals]
  /\ bgPc = [b \in BgIds |-> "idle"]
  /\ bgArgs = [b \in BgIds |-> NoArgs]
  /\ memPc = "idle"
  /\ clock = 0
  /\ crashed = FALSE
  /\ lastOp = NoOp
  /\ hist = [configures |-> 0]
  /\ result = [handled |-> 0, record |-> ExternalCorrelation("UNKNOWN", 1, 1)]

\* handleCorrelationActivity(correlation) for the next record of the buffers
HandleCorrelation ==
  /\ result.handled < MaxBatch
  /\ \E correlation \in CorrelationRecords :
       /\ prof' = handleCorrelationActivity(prof, correlation)
       /\ result' = [handled |-> result.handled + 1, record |-> correlation]
  /\ UNCHANGED <<cupti, mutex, pc, locals, bgPc, bgArgs, memPc, clock,
                 crashed, lastOp, hist>>

NextCorrelation == HandleCorrelation

SpecCorrelation == InitCorrelation /\ [][NextCorrelation]_vars

\* the map as it is after correlationId -> externalId is recorded in it
Recorded(map, correlation) ==
  [c \in DOMAIN map \cup {correlation.correlationId} |->
     IF c = correlation.correlationId THEN correlation.externalId
     ELSE map[c]]

\* C20: recording an external correlation tagged Default changes only the
\* Default channel map, one tagged User only the User channel map; a record
\* with any other tag changes neither map and adds exactly one to the
\* invalid-external-correlation counter; nothing else changes.
C20_CorrelationChannels ==
  [][LET correlation == result'.record
         expected ==
           CASE correlation.externalKind = "CUSTOM0" ->
                  [prof EXCEPT !.cpuCorrelationMap = Recorded(@, correlation)]
             [] correlation.externalKind = "CUSTOM1" ->
                  [prof EXCEPT !.userCorrelationMap = Recorded(@, correlation)]
             [] OTHER ->
                  [prof EXCEPT
                     !.ecs.invalid_external_correlation_events =
                       prof.ecs.invalid_external_correlation_events + 1]
     IN  result'.handled = result.handled + 1 => prof' = expected]_vars

\* both channels hold an entry and an unrecognised tag has been counted
C20_Witness ==
  /\ result.handled = MaxBatch
  /\ prof.cpuCorrelationMap # EmptyMap
  /\ prof.userCorrelationMap # EmptyMap
  /\ prof.cpuCorrelationMap # prof.userCorrelationMap
  /\ prof.ecs.invalid_external_correlation_events = 1

(***************************************************************************)
(* The error counters of a capture                                         *)
(***************************************************************************)
\* the counting members of ErrorCounts
CounterNames ==
  {"out_of_range_events", "blocklisted_runtime_events",
   "invalid_external_correlation_events", "gpu_and_cpu_op_out_of_order",
   "unexepected_cuda_events"}

\* the step is the resetInternal of a capture
ResetStep ==
  \E t \in Threads : pc[t] \in {"reset", "WarmupReset"} /\ pc'[t] = "idle"

\* the step is a configure call that got past the busy check
ConfigureStep == lastOp'.op \in {"configure_started", "configure_nostart"}

\* C21: no error counter decreases between a capture's configure and its
\* reset (a counter goes down only in a configure or a reset step), and
\* all counters are zero right after configure has started a capture.
C21_CountersMonotone ==
  [][/\ ((\E c \in CounterNames : prof'.ecs[c] < prof.ecs[c])
            => (ResetStep \/ ConfigureStep))
      /\ (lastOp'.op = "configure_started"
            => (\A c \in CounterNames : prof'.ecs[c] = 0))]_vars

\* a capture has counted two kinds of errors and is about to be reset
C21_Witness ==
  /\ pc["poll"] = "reset"
  /\ prof.ecs.invalid_external_correlation_events = 1
  /\ prof.ecs.unexepected_cuda_events = 1

(***************************************************************************)
(* One capture end to end: a CPU span, a runtime call and its kernel       *)
(***************************************************************************)
\* the times and ids of the capture: the CPU activity, the kernel it
\* launches and the correlation id of the launch
Scenario ==
  [cpuId |-> 1, cpuStart |-> 100, cpuEnd |-> 150, correlationId |-> 7,
   kernelStart |-> 140, kernelDuration |-> 30, windowStart |-> 0]

\* the ends of the capture window
ScenarioWindowEnds == {1000, 120}

\* where the capture stands, the end of its window, and the timestamp and
\* duration of the runtime record that launches the kernel
ScenarioInputs ==
  [stage : {"configure"}, windowEnd : ScenarioWindowEnds,
   runtimeStart : 0..Scenario.kernelStart, runtimeDuration : {0, 10}]

ScenarioCpuTrace ==
  CpuTraceBuffer("fwd", Scenario.cpuStart, Scenario.cpuEnd, 1,
                 <<CpuActivity(Scenario.cpuId, "cpu_op", Scenario.cpuStart,
                               Scenario.cpuEnd)>>)

\* what the backend has recorded when the GPU buffers are drained
ScenarioRecords(in) ==
  <<ExternalCorrelation("CUSTOM0", Scenario.correlationId, Scenario.cpuId),
    RawRecord("RUNTIME", Scenario.correlationId, in.runtimeStart,
              in.runtimeDuration),
    RawRecord("CONCURRENT_KERNEL", Scenario.correlationId,
              Scenario.kernelStart, Scenario.kernelDuration)>>

InitScenario == Constructed /\ result \in ScenarioInputs

\* configure accepts the request and starts the capture
ScenarioConfigure ==
  /\ result.stage = "configure"
  /\ prof' = configureStart(
               configureReset(prof, TimeConfig(0, 0, 1, DefaultTypes)))
  /\ cupti' = cuptiEnable(cupti)
  /\ result' = [result EXCEPT !.stage = "start"]
  /\ UNCHANGED <<mutex, pc, locals, bgPc, bgArgs, memPc, clock, crashed,
                 lastOp, hist>>

\* startTraceInternal at the start of the window
ScenarioStart ==
  /\ result.stage = "start"
  /\ prof' = startTraceInternal(prof, Scenario.windowStart)
  /\ result' = [result EXCEPT !.stage = "transfer"]
  /\ UNCHANGED <<cupti, mutex, pc, locals, bgPc, bgArgs, memPc, clock,
                 crashed, lastOp, hist>>

\* the client hands over its CPU buffer
ScenarioTransfer ==
  /\ result.stage = "transfer"
  /\ prof' = transferCpuTrace(prof, ScenarioCpuTrace)
  /\ result' = [result EXCEPT !.stage = "stop"]
  /\ UNCHANGED <<cupti, mutex, pc, locals, bgPc, bgArgs, memPc, clock,
                 crashed, lastOp, hist>>

\* stopTraceInternal at the end of the window
ScenarioStop ==
  /\ result.stage = "stop"
  /\ prof' = stopTraceInternal(prof, result.windowEnd)
  /\ cupti' = cuptiDisable(cupti)
  /\ result' = [result EXCEPT !.stage = "assemble"]
  /\ UNCHANGED <<mutex, pc, locals, bgPc, bgArgs, memPc, clock, crashed,
                 lastOp, hist>>

\* processTraceInternal up to finalizeTrace
ScenarioAssemble ==
  /\ result.stage = "assemble"
  /\ prof' = assembleTrace(prof, ScenarioRecords(result))
  /\ result' = [result EXCEPT !.stage = "assembled"]
  /\ UNCHANGED <<cupti, mutex, pc, locals, bgPc, bgArgs, memPc, clock,
                 crashed, lastOp, hist>>

NextScenario ==
  \/ ScenarioConfigure
  \/ ScenarioStart
  \/ ScenarioTransfer
  \/ ScenarioStop
  \/ ScenarioAssemble

SpecScenario == InitScenario /\ [][NextScenario]_vars

\* the kernel records the sink has been handed
EmittedKernels ==
  {k \in DOMAIN prof.logger.activities :
     prof.logger.activities[k].type = "kernel"}

\* the pair of span "fwd", iteration 0
FwdSpan == prof.traceSpans["fwd"][1]

\* C22: window [0, 1000): after trace assembly the kernel is emitted linked
\* to the CPU activity, span "fwd" iteration 0 (its CPU span together with
\* its GPU span) covers at least [100, 170), and every error counter is
\* zero.
C22_KernelLinkedAndSpanWidened ==
  (result.stage = "assembled" /\ result.windowEnd = 1000)
    => /\ EmittedKernels # {}
       /\ \A k \in EmittedKernels :
            /\ prof.logger.activities[k].linked # Null
            /\ Deref(prof.logger.activities[k].linked).id = Scenario.cpuId
       /\ FwdSpan.cpu.iteration = 0
       /\ FwdSpan.cpu.startTime <= Scenario.cpuStart
       /\ FwdSpan.gpu.startTime <= Scenario.kernelStart
       /\ FwdSpan.gpu.endTime
            >= Scenario.kernelStart + Scenario.kernelDuration
       /\ prof.ecs = DefaultErrorCounts

\* the capture with window [0, 1000) is assembled and its GPU span is
\* the kernel's [140, 170)
C22_Witness ==
  /\ result.stage = "assembled"
  /\ result.windowEnd = 1000
  /\ result.runtimeStart = Scenario.kernelStart
  /\ FwdSpan.gpu.startTime = 140
  /\ FwdSpan.gpu.endTime = 170

\* the runtime record of the capture lies inside its window
RuntimeInWindow ==
  result.runtimeStart + result.runtimeDuration <= result.windowEnd

\* the kernel is dropped and span "fwd" iteration 0 is left as the CPU
\* buffer recorded it: CPU span [100, 150), GPU span never set
KernelExcluded ==
  /\ EmittedKernels = {}
  /\ FwdSpan.cpu.startTime = Scenario.cpuStart
  /\ FwdSpan.cpu.endTime = Scenario.cpuEnd
  /\ FwdSpan.gpu.startTime = 0
  /\ FwdSpan.gpu.endTime = 0

\* C23 as stated: window [0, 120): after trace assembly the kernel record
\* [140, 170) is not emitted, the out-of-range counter is exactly 1, and
\* span "fwd" iteration 0 stays at the CPU-only bound [100, 150).
C23_KernelExcludedCountOne ==
  (result.stage = "assembled" /\ result.windowEnd = 120)
    => (KernelExcluded /\ prof.ecs.out_of_range_events = 1)

\* C23 amended: window [0, 120): after trace assembly the kernel record is
\* not emitted and the span stays at the CPU-only bound; the out-of-range
\* counter is 1 when the runtime record ends inside the window and 2 when
\* the runtime record, too, ends after 120.
C23_KernelExcludedCounted ==
  (result.stage = "assembled" /\ result.windowEnd = 120)
    => /\ KernelExcluded
       /\ prof.ecs.out_of_range_events = (IF RuntimeInWindow THEN 1 ELSE 2)

\* the capture with window [0, 120) is assembled, its runtime record was
\* inside the window and only the kernel has been counted
C23_Witness ==
  /\ result.stage = "assembled"
  /\ result.windowEnd = 120
  /\ RuntimeInWindow
  /\ prof.ecs.out_of_range_events = 1
  /\ EmittedKernels = {}

(***************************************************************************)
(* ~CuptiActivityProfiler                                                  *)
(***************************************************************************)
\* faulty variant: the destructor never waits
mustJoinNever(p) == FALSE

\* collectTraceThread_ && collectTraceThread_->joinable()
mustJoin(p) == p.collectTraceThread # 0

\* the object is alive and nothing has been recorded about its end
Alive == [stage |-> "alive"]

InitDestroy == Constructed /\ result = Alive

\* the calls on the live object
DriverStep == result.stage = "alive" /\ Next

\* the owner destroys the object; no call on it is in progress, the
\* background task goes on
DestroyBegin ==
  /\ ~crashed
  /\ result.stage = "alive"
  /\ \A t \in Threads : pc[t] = "idle"
  /\ memPc = "idle"
  /\ result' = [stage |-> "destructor"]
  /\ lastOp' = Internal
  /\ UNCHANGED <<prof, cupti, mutex, pc, locals, bgPc, bgArgs, memPc, clock,
                 crashed, hist>>

\* the destructor's body: join returns once the task has finished
DestroyJoin ==
  /\ result.stage = "destructor"
  /\ IF mustJoin(prof)
       THEN /\ bgPc[prof.collectTraceThread] = "finished"
            /\ bgPc' = [bgPc EXCEPT ![prof.collectTraceThread] = "idle"]
            /\ bgArgs' = [bgArgs EXCEPT ![prof.collectTraceThread] = NoArgs]
       ELSE UNCHANGED <<bgPc, bgArgs>>
  /\ result' = [stage |-> "members"]
  /\ lastOp' = Internal
  /\ UNCHANGED <<prof, cupti, mutex, pc, locals, memPc, clock, crashed,
                 hist>>

\* the members are destroyed after the body: the buffers, the maps and
\* the thread handle of the capture are released
DestroyMembers ==
  /\ result.stage = "members"
  /\ prof' = [resetTraceData(prof) EXCEPT !.collectTraceThread = 0]
  /\ result' = [stage |-> "released"]
  /\ lastOp' = Internal
  /\ UNCHANGED <<cupti, mutex, pc, locals, bgPc, bgArgs, memPc, clock,
                 crashed, hist>>

\* the background task during the destruction
DestroyBackground ==
  /\ result.stage # "alive"
  /\ \/ \E b \in BgIds : BgCollectTrace(b)
     \/ \E b \in BgIds : BgCollectTraceLocked(b)

NextDestroy ==
  \/ DriverStep
  \/ DestroyBegin
  \/ DestroyJoin
  \/ DestroyMembers
  \/ DestroyBackground

SpecDestroy == InitDestroy /\ [][NextDestroy]_vars

\* a background stop-and-finalize task that has been spawned and has not
\* run to its end
TaskRunning == \E b \in BgIds : bgPc[b] \in {"start", "locked"}

\* C24: when the driver is destroyed, any spawned background
\* stop-and-finalize task has finished before the owned per-capture state
\* is released.
C24_JoinBeforeRelease ==
  result.stage \in {"members", "released"} => ~TaskRunning

\* the destructor waits for a task that is still running
C24_Witness ==
  /\ result.stage = "destructor"
  /\ mustJoin(prof)
  /\ TaskRunning

(***************************************************************************)
(* collectTrace once per capture                                           *)
(***************************************************************************)
\* the callers of performRunLoopStep that are inside collectTrace
CallersCollecting ==
  {t \in Threads : pc[t] \in {"collectTrace", "collectTraceLocked"}}

\* the background tasks that are inside collectTrace
TasksCollecting == {b \in BgIds : bgPc[b] \in {"start", "locked"}}

\* C25: in every interleaving of the polling thread and the step-driven
\* caller collectTrace executes at most once per capture: while one
\* execution of collectTrace is in progress for the capture, no second one
\* is.
C25_CollectTraceOnce ==
  Cardinality(CallersCollecting) + Cardinality(TasksCollecting) <= 1

(***************************************************************************)
(* Early stop in Warmup                                                    *)
(***************************************************************************)
\* the step that ends an aborted Warmup: resetInternal stores
\* WaitForRequest and the tick returns
WarmupAbortReturns ==
  \E t \in Threads : pc[t] = "WarmupReset" /\ pc'[t] = "idle"

\* C26: when a capture in Warmup is aborted because the backend reported
\* an early stop, the backend-stopped-early error counter is set for that
\* capture before the driver returns to WaitForRequest.
C26_WarmupAbortCounted ==
  [][WarmupAbortReturns => prof.ecs.cupti_stopped_early]_vars

(***************************************************************************)
(* The out-of-range counter and the records excluded                       *)
(***************************************************************************)
\* C27: after the outOfRange calls of a capture the out-of-range counter
\* equals the number of calls that returned true, also when range
\* profiling is active and a zero-timestamp record is passed: after one
\* call on a fresh capture the counter is 1 when the call returned true and
\* 0 when it returned false.
C27_CounterCountsExcluded ==
  result.evaluated
    => result.out_of_range_events = (IF result.value THEN 1 ELSE 0)

(***************************************************************************)
(* The timestamp cross-check index over the records of a capture           *)
(***************************************************************************)
MaxArrivals == 3

\* the runtime and GPU records that reach checkTimestampOrder
IndexRecords ==
  {Wrapper("cuda_runtime", RawRecord("RUNTIME", id, ts, 1), 1, Null) :
     id \in 1..MaxCorrelationId, ts \in 0..MaxStamp}
    \cup
  {Wrapper("kernel", RawRecord("CONCURRENT_KERNEL", id, ts, 1), 1, Null) :
     id \in 1..MaxCorrelationId, ts \in 0..MaxStamp}

\* no record has arrived
NoArrivals == [arrived |-> [id \in 1..MaxCorrelationId |-> 0], last |-> Null]

InitIndex == Constructed /\ result = NoArrivals

\* checkTimestampOrder(act) for the next record of the capture
CheckOrder ==
  \E act \in IndexRecords :
    /\ result.arrived[act.correlationId] < MaxArrivals
    /\ prof' = checkTimestampOrder(prof, act)
    /\ result' = [arrived |-> [result.arrived EXCEPT
                                ![act.correlationId] = @ + 1],
                  last |-> Ptr(act)]
    /\ UNCHANGED <<cupti, mutex, pc, locals, bgPc, bgArgs, memPc, clock,
                   crashed, lastOp, hist>>

NextIndex == CheckOrder

SpecIndex == InitIndex /\ [][NextIndex]_vars

\* the profiler but for the cross-check index and the out-of-order counter
OutsideIndex(p) ==
  [p EXCEPT !.correlatedCudaActivities = <<>>,
            !.ecs.gpu_and_cpu_op_out_of_order = 0]

\* C28: the timestamp cross-check index holds one record for a
\* correlation id, the first that arrived, so never more than one runtime
\* record and one GPU record; a record arriving for an id that is already
\* registered leaves the index as it is and changes nothing but the
\* out-of-order counter, which stays or goes up by one.
C28_IndexFirstArrival ==
  [][result'.arrived # result.arrived
       => LET act == Deref(result'.last)
              id == act.correlationId
              index == prof.correlatedCudaActivities
              count == prof.ecs.gpu_and_cpu_op_out_of_order
          IN  /\ OutsideIndex(prof') = OutsideIndex(prof)
              /\ IF id \in DOMAIN index
                   THEN /\ prof'.correlatedCudaActivities = index
                        /\ prof'.ecs.gpu_and_cpu_op_out_of_order
                             \in {count, count + 1}
                   ELSE /\ prof'.correlatedCudaActivities
                             = Put(index, id, act)
                        /\ prof'.ecs.gpu_and_cpu_op_out_of_order = count]_vars

\* a third record has arrived for a registered id and has been counted out
\* of order
C28_Witness ==
  /\ \E id \in 1..MaxCorrelationId :
       /\ result.arrived[id] = 3
       /\ Deref(result.last).correlationId = id
  /\ prof.ecs.gpu_and_cpu_op_out_of_order = 2

(***************************************************************************)
(* Synchronization records of every type while the buffers are drained     *)
(***************************************************************************)
\* CUpti_ActivitySynchronizationType
SyncTypes ==
  {"EVENT_SYNCHRONIZE", "STREAM_WAIT_EVENT", "STREAM_SYNCHRONIZE",
   "CONTEXT_SYNCHRONIZE"}

\* the synchronization records the backend may hold as record number n,
\* inside the capture window (timestamp 1) and past its end
SyncRecords(n) ==
  {[SyncRecord(type, n, ts, 1) EXCEPT
      !.contextId = ContextOf(0), !.streamId = s] :
     type \in SyncTypes, s \in Streams, ts \in {1, MaxStamp}}

\* cupti_.processActivities hands the next synchronization record to
\* handleCuptiActivity
DrainSyncRecord ==
  /\ Len(result.drained) < MaxBatch
  /\ \E record \in SyncRecords(Len(result.drained) + 1) :
       /\ prof' = handleCuptiActivity(prof, record)
       /\ result' = [result EXCEPT !.drained = Append(@, record)]
  /\ UNCHANGED <<cupti, mutex, pc, locals, bgPc, bgArgs, memPc, clock,
                 crashed, lastOp, hist>>

NextSync == DrainSyncRecord

SpecSync == InitDeferred /\ [][NextSync]_vars

\* the sink of profiler p has been handed synchronization record number n
SyncLogged(p, n) ==
  \E k \in DOMAIN p.logger.activities :
     /\ p.logger.activities[k].type = "cuda_sync"
     /\ p.logger.activities[k].correlationId = n

\* the record drained by the step was appended to the deferred queue
Queued ==
  /\ Len(prof'.logQueue) = Len(prof.logQueue) + 1
  /\ prof'.logQueue[Len(prof'.logQueue)].logMe
       = result'.drained[Len(result'.drained)]

\* the record drained by the step is of a type other than wait-on-event:
\* it is range-checked, handed to the sink if it lies inside the window,
\* and the queue is left alone
ProcessedAtDrain ==
  LET n == Len(result'.drained)
      record == result'.drained[n]
  IN  /\ prof'.logQueue = prof.logQueue
      /\ SyncLogged(prof', n) <=> record.timestamp = 1
      /\ prof'.ecs.out_of_range_events
           = prof.ecs.out_of_range_events
               + (IF record.timestamp = 1 THEN 0 ELSE 1)

\* C29 as stated: while the GPU buffers are drained a synchronization
\* record is appended to the deferred queue and not emitted at that point
\* exactly when its type is wait-on-event; every other synchronization
\* record is range-checked and emitted when drained and never queued.
C29_DeferredExactlyWaitEvents ==
  [][result'.drained # result.drained
       => LET n == Len(result'.drained)
              record == result'.drained[n]
          IN  /\ (Queued /\ ~SyncLogged(prof', n))
                   <=> isWaitEventSync(record.externalKind)
              /\ ((~isWaitEventSync(record.externalKind))
                   => ProcessedAtDrain)]_vars

\* C29 amended: in a capture whose configuration enables wait-event
\* records, a synchronization record is appended to the deferred queue and
\* not emitted at that point exactly when its type is wait-on-event; in a
\* capture that disables them a wait-on-event record is dropped, neither
\* queued nor emitted; every other synchronization record is range-checked
\* and emitted when drained and never queued.
C29_DeferredWaitEventsWhenEnabled ==
  [][result'.drained # result.drained
       => LET n == Len(result'.drained)
              record == result'.drained[n]
              enabled == Deref(prof.config).activitiesCudaSyncWaitEvents
          IN  /\ (Queued /\ ~SyncLogged(prof', n))
                   <=> (isWaitEventSync(record.externalKind) /\ enabled)
              /\ ((isWaitEventSync(record.externalKind) /\ ~enabled)
                   => (prof' = prof))
              /\ ((~isWaitEventSync(record.externalKind))
                   => ProcessedAtDrain)]_vars

\* a wait-on-event record sits in the queue, not emitted, next to a
\* stream synchronization that was emitted when it was drained
C29_Witness ==
  /\ Deref(prof.config).activitiesCudaSyncWaitEvents
  /\ Len(result.drained) = 2
  /\ result.drained[1].externalKind = "STREAM_WAIT_EVENT"
  /\ result.drained[2].externalKind = "STREAM_SYNCHRONIZE"
  /\ Len(prof.logQueue) = 1
  /\ ~SyncLogged(prof, 1)
  /\ SyncLogged(prof, 2)

(***************************************************************************)
(* A span under the span-widening updates                                  *)
(***************************************************************************)
\* record number n of the batch was not excluded by outOfRange: the
\* span-widening updates have been applied to it
SpanApplied(n) ==
  ~outOfRange(prof, Wrapper("kernel", result.records[n], 1, Null))

\* a record has set the times of the span pair
SpanSet == \E n \in result.drained : SpanApplied(n)

\* C30: a GPU span never shrinks: once a record has set the start time of
\* the GPU span of the pair, or of a user-annotation span, no later
\* span-widening update increases the start time or decreases the end
\* time.
C30_SpanNeverShrinks ==
  [][SpanSet
       => /\ prof'.traceSpans["fwd"][1].gpu.startTime
               <= prof.traceSpans["fwd"][1].gpu.startTime
          /\ prof'.traceSpans["fwd"][1].gpu.endTime
               >= prof.traceSpans["fwd"][1].gpu.endTime
          /\ \A k \in DOMAIN prof.gpuUserEventMap :
               /\ k \in DOMAIN prof'.gpuUserEventMap
               /\ prof'.gpuUserEventMap[k].startTime
                    <= prof.gpuUserEventMap[k].startTime
               /\ prof'.gpuUserEventMap[k].endTime
                    >= prof.gpuUserEventMap[k].endTime]_vars

(***************************************************************************)
(* The user-annotation spans of a capture                                  *)
(***************************************************************************)
MaxAnnotated == 3

\* the (device, stream) pairs the GPU records of the capture run on
DeviceStreams == {<<0, 1>>, <<0, 2>>, <<1, 1>>}

\* the CPU activities of the capture's buffer; an external id above them
\* names no registered activity
AnnotatedCpuIds == {1, 2}
UserExternalIds == 0..3

\* a capture in trace assembly with window [1, MaxStamp] whose CPU buffer,
\* holding activities 1 and 2, has been processed; selected tells whether
\* GPU user annotations are among the selected types
AnnotatedCapture(selected) ==
  LET types == DefaultTypes
                 \cup (IF selected THEN {"gpu_user_annotation"} ELSE {})
      p0 == configureStart(
              configureReset(InitProf, TimeConfig(1, 0, 1, types)))
      p1 == [p0 EXCEPT
               !.traceBuffers =
                 Ptr([cpu |-> <<CpuTraceBuffer("fwd", 1, 2, 1,
                                  <<CpuActivity(1, "cpu_op", 1, 2),
                                    CpuActivity(2, "cpu_op", 1, 2)>>)>>,
                      wrappers |-> <<>>]),
               !.captureWindowStartTime = 1,
               !.captureWindowEndTime = MaxStamp,
               !.currentRunloopState = "ProcessTrace"]
  IN  processCpuTraces(p1, 1)

InitAnnotated ==
  /\ \E selected \in BOOLEAN : prof = AnnotatedCapture(selected)
  /\ cupti = InitCupti
  /\ mutex = "none"
  /\ pc = [t \in Threads |-> "idle"]
  /\ locals = [t \in Threads |-> NoLocals]
  /\ bgPc = [b \in BgIds |-> "idle"]
  /\ bgArgs = [b \in BgIds |-> NoArgs]
  /\ memPc = "idle"
  /\ clock = 0
  /\ crashed = FALSE
  /\ lastOp = NoOp
  /\ hist = [configures |-> 1]
  /\ result = [drained |-> <<>>, finalized |-> FALSE]

\* the backend hands over kernel number n of the capture, on one of the
\* (device, stream) pairs, inside the window (timestamp 1) or past its end;
\* a User-channel correlation record for it comes first unless ext is 0
DrainAnnotated ==
  /\ ~result.finalized
  /\ Len(result.drained) < MaxAnnotated
  /\ \E ds \in DeviceStreams, ext \in UserExternalIds, ts \in {1, MaxStamp} :
       LET n == Len(result.drained) + 1
           kernel == [RawRecord("CONCURRENT_KERNEL", n, ts, 1) EXCEPT
                        !.deviceId = ds[1], !.streamId = ds[2]]
           p1 == IF ext = 0 THEN prof
                 ELSE handleCuptiActivity(
                        prof, ExternalCorrelation("CUSTOM1", n, ext))
       IN  /\ prof' = handleCuptiActivity(p1, kernel)
           /\ result' = [result EXCEPT !.drained =
                           Append(@, [device |-> ds[1], stream |-> ds[2],
                                      ext |-> ext, timestamp |-> ts])]
  /\ UNCHANGED <<cupti, mutex, pc, locals, bgPc, bgArgs, memPc, clock,
                 crashed, lastOp, hist>>

\* finalizeTrace after the buffers are drained
FinalizeAnnotated ==
  /\ ~result.finalized
  /\ prof' = finalizeTrace(logDeferredEvents(prof))
  /\ result' = [result EXCEPT !.finalized = TRUE]
  /\ UNCHANGED <<cupti, mutex, pc, locals, bgPc, bgArgs, memPc, clock,
                 crashed, lastOp, hist>>

NextAnnotated == DrainAnnotated \/ FinalizeAnnotated

SpecAnnotated == InitAnnotated /\ [][NextAnnotated]_vars

\* the (device, stream, CPU correlation id) triples of the in-range GPU
\* records whose User-channel correlation names a registered CPU activity
AnnotatedTriples ==
  {<<result.drained[n].device, result.drained[n].stream,
     result.drained[n].ext>> :
     n \in {m \in DOMAIN result.drained :
              /\ result.drained[m].timestamp = 1
              /\ result.drained[m].ext \in AnnotatedCpuIds}}

\* C31: with GPU user annotations selected, the number of annotation spans
\* emitted at finalization equals the number of distinct (device, stream,
\* CPU correlation id) triples among the in-range GPU records whose
\* User-channel correlation resolves to a registered CPU activity, however
\* many records share a triple.
C31_OneSpanPerTriple ==
  (result.finalized
     /\ "gpu_user_annotation" \in Deref(prof.derivedConfig).profileActivityTypes)
    => /\ Cardinality(prof.logger.userSpans) = Cardinality(AnnotatedTriples)
       /\ {<<u.device, u.resource, u.id>> : u \in prof.logger.userSpans}
            = AnnotatedTriples

\* three records, two of them sharing a triple, have given two spans
C31_Witness ==
  /\ result.finalized
  /\ Len(result.drained) = 3
  /\ Cardinality(AnnotatedTriples) = 2
  /\ \A n \in 1..3 : result.drained[n].timestamp = 1
                        /\ result.drained[n].ext \in AnnotatedCpuIds
  /\ Cardinality(prof.logger.userSpans) = 2

(***************************************************************************)
(* transferCpuTrace over the captures of a driver                          *)
(***************************************************************************)
MaxCaptures == 2
MaxTransfers == 3

SpanNames == {"fwd", "bwd"}

\* the buffers accepted in the current capture as (name, iteration) pairs in
\* acceptance order, the numbers of captures and transferCpuTrace calls, and
\* the number of GPU records drained in the current capture
NoTransfers ==
  [accepted |-> <<>>, captures |-> 0, transfers |-> 0, drained |-> 0]

InitTransfer == Constructed /\ result = NoTransfers

\* configure accepts a request and a capture begins
CaptureConfigure ==
  /\ memPc = "idle"
  /\ ~configureBusy(prof)
  /\ result.captures < MaxCaptures
  /\ prof' = configureStart(
               configureReset(prof, TimeConfig(1, 0, 1, DefaultTypes)))
  /\ cupti' = cuptiEnable(cupti)
  /\ result' = [result EXCEPT !.accepted = <<>>, !.captures = @ + 1,
                               !.drained = 0]
  /\ UNCHANGED <<mutex, pc, locals, bgPc, bgArgs, memPc, clock, crashed,
                 lastOp, hist>>

\* the Warmup tick that finds warmup done: startTraceInternal
CaptureStart ==
  /\ memPc = "idle"
  /\ prof.currentRunloopState = "Warmup"
  /\ prof' = startTraceInternal(prof, 1)
  /\ UNCHANGED <<cupti, mutex, pc, locals, bgPc, bgArgs, memPc, clock,
                 crashed, lastOp, hist, result>>

\* the CollectTrace tick that finds the collection done: collectTrace
CaptureStop ==
  /\ memPc = "idle"
  /\ prof.currentRunloopState = "CollectTrace"
  /\ prof' = stopTraceInternal(prof, 2)
  /\ cupti' = cuptiDisable(cupti)
  /\ UNCHANGED <<mutex, pc, locals, bgPc, bgArgs, memPc, clock, crashed,
                 lastOp, hist, result>>

\* the ProcessTrace tick: processTraceInternal and resetInternal under
\* mutex_
CaptureProcess ==
  /\ memPc = "idle"
  /\ prof.currentRunloopState = "ProcessTrace"
  /\ prof' = [resetInternal(finalizeTrace(assembleTrace(prof, <<>>)))
                EXCEPT !.logger = EmptyLogger]
  /\ UNCHANGED <<cupti, mutex, pc, locals, bgPc, bgArgs, memPc, clock,
                 crashed, lastOp, hist, result>>

\* transferCpuTrace(cpuTrace), the whole call under mutex_
TransferBuffer ==
  /\ result.transfers < MaxTransfers
  /\ \E name \in SpanNames :
       LET cpuTrace == CpuTraceBuffer(name, 1, 2, 1,
                                      <<CpuActivity(1, "cpu_op", 1, 2)>>)
       IN  IF prof.currentRunloopState \notin {"CollectTrace", "ProcessTrace"}
             THEN /\ prof' = prof
                  /\ result' = [result EXCEPT !.transfers = @ + 1]
             ELSE /\ prof' = transferCpuTrace(prof, cpuTrace)
                  /\ result' =
                       [result EXCEPT
                          !.transfers = @ + 1,
                          !.accepted =
                            Append(@, <<name,
                              transferCpuTrace(prof, cpuTrace).iterationCountMap
                                [name] - 1>>)]
  /\ UNCHANGED <<cupti, mutex, pc, locals, bgPc, bgArgs, memPc, clock,
                 crashed, lastOp, hist>>

NextTransfer ==
  \/ CaptureConfigure
  \/ CaptureStart
  \/ CaptureStop
  \/ CaptureProcess
  \/ TransferBuffer
  \/ MemoryLoopBegin
  \/ MemoryLoopEnd

SpecTransfer == InitTransfer /\ [][NextTransfer]_vars

\* the number of buffers named as entry number i that the capture accepted
\* before it
EarlierAccepted(accepted, i) ==
  Cardinality({j \in 1..(i - 1) : accepted[j][1] = accepted[i][1]})

\* C32: transferCpuTrace discards a buffer, changing no state, unless the
\* runloop state is CollectTrace or ProcessTrace; the buffers it accepts for
\* one span name within a capture receive the iteration indices 0, 1, 2,
\* ... in acceptance order, so no two of them share (name, iteration), and a
\* discarded buffer consumes no index.
C32_TransferIndices ==
  [][result'.transfers # result.transfers
       => /\ ((prof.currentRunloopState
                  \notin {"CollectTrace", "ProcessTrace"})
                => (prof' = prof))
          /\ \A i \in DOMAIN result'.accepted :
               result'.accepted[i][2] = EarlierAccepted(result'.accepted, i)]_vars

(***************************************************************************)
(* processCpuTrace on one buffer                                           *)
(***************************************************************************)
MaxActivities == 2

\* the activities a client may record as number id of its buffer: of a
\* selected type or not, closed (end after start) or still open (the end
\* before the start, a negative duration)
CpuActivities(id) ==
  {CpuActivity(id, type, startTime, endTime) :
     type \in {"cpu_op", "user_annotation"}, startTime \in {1, 2},
     endTime \in {0, 3}}

CpuBuffers ==
  UNION {{b \in [1..len -> UNION {CpuActivities(id) : id \in 1..MaxActivities}] :
            \A j \in 1..len : b[j].id = j} :
           len \in 0..MaxActivities}

\* a capture in trace assembly, window [1, MaxStamp], whose store holds the
\* buffer
CpuTraceCapture(activities) ==
  [configureStart(
     configureReset(InitProf, TimeConfig(1, 0, 1, DefaultTypes)))
   EXCEPT
     !.traceBuffers =
       Ptr([cpu |-> <<CpuTraceBuffer("fwd", 1, 2, 1, activities)>>,
            wrappers |-> <<>>]),
     !.captureWindowStartTime = 1,
     !.captureWindowEndTime = MaxStamp,
     !.currentRunloopState = "ProcessTrace"]

InitCpuTrace ==
  /\ \E activities \in CpuBuffers :
       /\ prof = CpuTraceCapture(activities)
       /\ result = [activities |-> activities, processed |-> FALSE]
  /\ cupti = InitCupti
  /\ mutex = "none"
  /\ pc = [t \in Threads |-> "idle"]
  /\ locals = [t \in Threads |-> NoLocals]
  /\ bgPc = [b \in BgIds |-> "idle"]
  /\ bgArgs = [b \in BgIds |-> NoArgs]
  /\ memPc = "idle"
  /\ clock = 0
  /\ crashed = FALSE
  /\ lastOp = NoOp
  /\ hist = [configures |-> 1]

\* processCpuTrace(cpuTrace, logger) on the buffer of the store
ProcessCpuTrace ==
  /\ ~result.processed
  /\ prof' = processCpuTrace(prof, 1)
  /\ result' = [result EXCEPT !.processed = TRUE]
  /\ UNCHANGED <<cupti, mutex, pc, locals, bgPc, bgArgs, memPc, clock,
                 crashed, lastOp, hist>>

NextCpuTrace == ProcessCpuTrace

SpecCpuTrace == InitCpuTrace /\ [][NextCpuTrace]_vars

\* the sink has been handed CPU activity id
CpuForwarded(id) ==
  \E k \in DOMAIN prof.logger.activities :
     /\ prof.logger.activities[k].type \in {"cpu_op", "user_annotation"}
     /\ prof.logger.activities[k].id = id

\* C33: when a buffered CPU trace is processed every activity in it is
\* registered in the CPU activity index whether or not its type is
\* selected, every activity with negative duration has its end time set to
\* the capture window's end and is tagged as unfinished, and an activity is
\* forwarded to the sink exactly when its type is in the configured
\* selection.
C33_CpuTraceProcessed ==
  result.processed
    => \A j \in DOMAIN result.activities :
         LET act == result.activities[j]
         IN  /\ act.id \in DOMAIN prof.activityMap
             /\ ((act.endTime - act.startTime < 0)
                   => /\ prof.activityMap[act.id].endTime
                          = prof.captureWindowEndTime
                      /\ ~prof.activityMap[act.id].finished)
             /\ CpuForwarded(act.id)
                  <=> act.type
                        \in Deref(prof.derivedConfig).profileActivityTypes

(***************************************************************************)
(* The wakeup time performRunLoopStep returns                              *)
(***************************************************************************)
\* C34: performRunLoopStep never returns a wakeup time later than the
\* nextWakeupTime it was given; for a time-driven capture a Warmup tick
\* that does not finish warmup returns a time no later than the window's
\* start, and a Warmup tick that finishes warmup or a CollectTrace tick
\* that does not finish the collection returns a time no later than the
\* window's end; for an iteration-driven capture the returned time equals
\* nextWakeupTime.
C34_WakeupClamped ==
  [][\A t \in Threads :
       (pc[t] # "idle" /\ pc'[t] = "idle")
         => LET dc == Deref(prof.derivedConfig)
                ret == lastOp'.ret
                arg == lastOp'.arg
                collecting ==
                  /\ pc[t] = "CollectTrace"
                  /\ ~isCollectionDone(dc, locals[t].now,
                                       locals[t].currentIter)
                  /\ ~cupti.stopCollection
            IN  /\ ret <= arg
                /\ ((~dc.profilingByIter /\ pc[t] = "Warmup")
                      => (ret <= dc.profileStartTime))
                /\ ((~dc.profilingByIter /\ pc[t] = "WarmupStart")
                      => (ret <= dc.profileEndTime))
                /\ ((~dc.profilingByIter /\ collecting)
                      => (ret <= dc.profileEndTime))
                /\ (dc.profilingByIter => (ret = arg))]_vars

(***************************************************************************)
(* The event and context tables from one capture to the next               *)
(***************************************************************************)
\* the records the backend may hold as record number n of a capture: a
\* kernel of device 1, a cudaEventRecord on stream 2, and an event
\* synchronization, all of the context of device 1
TableRecords(n) ==
  {[RawRecord("CONCURRENT_KERNEL", n, 1, 1) EXCEPT
      !.deviceId = 1, !.contextId = ContextOf(1)],
   [CudaEventRecord(n, 1) EXCEPT
      !.contextId = ContextOf(1), !.streamId = 2],
   [SyncRecord("EVENT_SYNCHRONIZE", n, 1, 1) EXCEPT
      !.contextId = ContextOf(1)]}

\* cupti_.processActivities hands the next record of the capture to
\* handleCuptiActivity
DrainTableRecord ==
  /\ prof.currentRunloopState = "ProcessTrace"
  /\ result.drained < MaxBatch
  /\ \E record \in TableRecords(result.drained + 1) :
       prof' = handleCuptiActivity(prof, record)
  /\ result' = [result EXCEPT !.drained = @ + 1]
  /\ UNCHANGED <<cupti, mutex, pc, locals, bgPc, bgArgs, memPc, clock,
                 crashed, lastOp, hist>>

NextTables ==
  \/ CaptureConfigure
  \/ CaptureStart
  \/ CaptureStop
  \/ DrainTableRecord
  \/ CaptureProcess

SpecTables == InitTransfer /\ [][NextTables]_vars

\* C35: the event -> (stream, correlation id) table and the context ->
\* device table carry nothing from one capture to the next: when the
\* records of a capture start being processed neither table holds an
\* entry, so a synchronization record resolves its source stream and its
\* device only from records of its own capture.
C35_TablesPerCapture ==
  (prof.currentRunloopState = "ProcessTrace" /\ result.drained = 0)
    => (prof.waitEventMap = EmptyMap /\ prof.ctxToDeviceId = EmptyMap)

(***************************************************************************)
(* linkedActivity over the whole range of backend correlation ids          *)
(***************************************************************************)
\* backend correlation ids at both ends of the unsigned range and on
\* either side of the sign bit
LinkedIds == {1, 2 ^ (IdBits - 1) - 1, 2 ^ (IdBits - 1), 2 ^ IdBits - 1}

\* external ids: two registered CPU activities and one that is not
LinkedExternalIds == {1, 2, 3}

LinkedRecords ==
  {ExternalCorrelation(k, c, e) :
     k \in {"CUSTOM0", "CUSTOM1"}, c \in LinkedIds, e \in LinkedExternalIds}

NoLookup == [handled |-> 0, looked |-> FALSE, correlationId |-> 0,
             channel |-> "CUSTOM0", linked |-> Null]

InitLinked ==
  /\ prof = AnnotatedCapture(FALSE)
  /\ cupti = InitCupti
  /\ mutex = "none"
  /\ pc = [t \in Threads |-> "idle"]
  /\ locals = [t \in Threads |-> NoLocals]
  /\ bgPc = [b \in BgIds |-> "idle"]
  /\ bgArgs = [b \in BgIds |-> NoArgs]
  /\ memPc = "idle"
  /\ clock = 0
  /\ crashed = FALSE
  /\ lastOp = NoOp
  /\ hist = [configures |-> 1]
  /\ result = NoLookup

\* handleCorrelationActivity(correlation) for the next record of the buffers
RecordCorrelation ==
  /\ result.handled < MaxBatch
  /\ \E correlation \in LinkedRecords :
       prof' = handleCorrelationActivity(prof, correlation)
  /\ result' = [result EXCEPT !.handled = @ + 1, !.looked = FALSE]
  /\ UNCHANGED <<cupti, mutex, pc, locals, bgPc, bgArgs, memPc, clock,
                 crashed, lastOp, hist>>

\* the channel map a record handler passes to linkedActivity
ChannelMap(p, channel) ==
  IF channel = "CUSTOM0" THEN p.cpuCorrelationMap ELSE p.userCorrelationMap

\* linkedActivity(act->correlationId, map) as the record handlers call it:
\* the record's unsigned id is the argument of the signed parameter
LookupLinked ==
  /\ \E correlationId \in LinkedIds, channel \in {"CUSTOM0", "CUSTOM1"} :
       result' = [result EXCEPT
                    !.looked = TRUE,
                    !.correlationId = correlationId,
                    !.channel = channel,
                    !.linked = linkedActivity(prof, correlationId,
                                              ChannelMap(prof, channel))]
  /\ UNCHANGED <<prof, cupti, mutex, pc, locals, bgPc, bgArgs, memPc, clock,
                 crashed, lastOp, hist>>

NextLinked ==
  \/ RecordCorrelation
  \/ LookupLinked

SpecLinked == InitLinked /\ [][NextLinked]_vars

\* C36: for every backend correlation id of the unsigned range, those with
\* the top bit set included, linkedActivity returns the registered CPU
\* activity whose id the channel map records for that correlation id, and
\* nothing when the channel map has no entry for it or the recorded id is
\* not a registered activity.
C36_LinkedWholeRange ==
  result.looked =>
    LET map == ChannelMap(prof, result.channel)
        c == result.correlationId
    IN  IF c \in DOMAIN map /\ map[c] \in DOMAIN prof.activityMap
          THEN result.linked = Ptr(prof.activityMap[map[c]])
          ELSE result.linked = Null

(***************************************************************************)
(* A driver-API kernel launch and its GPU record                           *)
(***************************************************************************)
\* a driver-API record and a GPU record with one correlation id, and the
\* order in which the backend delivers them
DriverInputs ==
  [correlationId : 1..MaxCorrelationId,
   driverTimestamp : 0..MaxStamp, gpuTimestamp : 0..MaxStamp,
   kernelLaunch : BOOLEAN, first : {"driver", "gpu"}, passed : {0}]

\* the record of the pair that is delivered as number n
DriverPairRecord(in, n) ==
  IF (in.first = "driver") = (n = 1)
    THEN [RawRecord("DRIVER", in.correlationId, in.driverTimestamp, 1)
            EXCEPT !.kernelLaunch = in.kernelLaunch]
    ELSE RawRecord("CONCURRENT_KERNEL", in.correlationId, in.gpuTimestamp, 1)

InitDriver ==
  /\ prof = AnnotatedCapture(FALSE)
  /\ cupti = InitCupti
  /\ mutex = "none"
  /\ pc = [t \in Threads |-> "idle"]
  /\ locals = [t \in Threads |-> NoLocals]
  /\ bgPc = [b \in BgIds |-> "idle"]
  /\ bgArgs = [b \in BgIds |-> NoArgs]
  /\ memPc = "idle"
  /\ clock = 0
  /\ crashed = FALSE
  /\ lastOp = NoOp
  /\ hist = [configures |-> 1]
  /\ result \in DriverInputs

\* handleCuptiActivity for the record of the pair delivered first
DeliverFirst ==
  /\ result.passed = 0
  /\ prof' = handleCuptiActivity(prof, DriverPairRecord(result, 1))
  /\ result' = [result EXCEPT !.passed = 1]
  /\ UNCHANGED <<cupti, mutex, pc, locals, bgPc, bgArgs, memPc, clock,
                 crashed, lastOp, hist>>

\* handleCuptiActivity for the record of the pair delivered second
DeliverSecond ==
  /\ result.passed = 1
  /\ prof' = handleCuptiActivity(prof, DriverPairRecord(result, 2))
  /\ result' = [result EXCEPT !.passed = 2]
  /\ UNCHANGED <<cupti, mutex, pc, locals, bgPc, bgArgs, memPc, clock,
                 crashed, lastOp, hist>>

NextDriver == DeliverFirst \/ DeliverSecond

SpecDriver == InitDriver /\ [][NextDriver]_vars

\* C37: for a driver-API kernel-launch record and the GPU record of the
\* same correlation id, whichever of the two is passed first, the
\* out-of-order counter ends incremented by one exactly when the GPU
\* timestamp is non-zero and the driver timestamp is greater than the GPU
\* timestamp, and unchanged otherwise.
C37_DriverOrderVerdict ==
  (result.passed = 2 /\ result.kernelLaunch)
    => prof.ecs.gpu_and_cpu_op_out_of_order
         = IF result.gpuTimestamp # 0
                /\ result.driverTimestamp > result.gpuTimestamp
             THEN 1 ELSE 0

(***************************************************************************)
(* A wait-event synchronization and the kernel that reveals its device     *)
(***************************************************************************)
\* a kernel of device d and a wait-event synchronization of the context of
\* d, the records already drained and whether the queue has been flushed
RevealInputs ==
  [deviceId : Devices, kernelStream : Streams, syncStream : Streams,
   kernelTimestamp : {1, MaxStamp}, syncTimestamp : {1, MaxStamp},
   drained : {{}}, flushed : {FALSE}]

\* the two records of the capture: number 1 is the kernel, number 2 the
\* synchronization
RevealRecords(in) ==
  <<[RawRecord("CONCURRENT_KERNEL", 1, in.kernelTimestamp, 1) EXCEPT
       !.deviceId = in.deviceId, !.contextId = ContextOf(in.deviceId),
       !.streamId = in.kernelStream],
    [SyncRecord("STREAM_WAIT_EVENT", 2, in.syncTimestamp, 1) EXCEPT
       !.contextId = ContextOf(in.deviceId), !.streamId = in.syncStream]>>

\* the capture at the point where its GPU buffers start being drained
RevealCapture ==
  [configureStart(configureReset(InitProf, TimeConfig(1, 0, 1, DefaultTypes)))
   EXCEPT !.captureWindowStartTime = 1,
          !.captureWindowEndTime = MaxStamp,
          !.currentRunloopState = "ProcessTrace"]

InitReveal ==
  /\ prof = RevealCapture
  /\ cupti = InitCupti
  /\ mutex = "none"
  /\ pc = [t \in Threads |-> "idle"]
  /\ locals = [t \in Threads |-> NoLocals]
  /\ bgPc = [b \in BgIds |-> "idle"]
  /\ bgArgs = [b \in BgIds |-> NoArgs]
  /\ memPc = "idle"
  /\ clock = 0
  /\ crashed = FALSE
  /\ lastOp = NoOp
  /\ hist = [configures |-> 1]
  /\ result \in RevealInputs

\* the backend hands over one of the two records not yet drained
DrainRevealRecord ==
  /\ \E n \in {1, 2} \ result.drained :
       /\ prof' = handleCuptiActivity(prof, RevealRecords(result)[n])
       /\ result' = [result EXCEPT !.drained = @ \cup {n}]
  /\ UNCHANGED <<cupti, mutex, pc, locals, bgPc, bgArgs, memPc, clock,
                 crashed, lastOp, hist>>

\* logDeferredEvents() after both records are drained
FlushReveal ==
  /\ result.drained = {1, 2}
  /\ ~result.flushed
  /\ prof' = logDeferredEvents(prof)
  /\ result' = [result EXCEPT !.flushed = TRUE]
  /\ UNCHANGED <<cupti, mutex, pc, locals, bgPc, bgArgs, memPc, clock,
                 crashed, lastOp, hist>>

NextReveal == DrainRevealRecord \/ FlushReveal

SpecReveal == InitReveal /\ [][NextReveal]_vars

\* the (device, stream) keys of the deferred queue, and the synchronization
\* records the sink has been handed
SyncOutcome(p) ==
  [keys |-> [i \in DOMAIN p.logQueue |->
               <<p.logQueue[i].device, p.logQueue[i].stream>>],
   emitted |-> {p.logger.activities[k].correlationId :
                  k \in {j \in DOMAIN p.logger.activities :
                           p.logger.activities[j].type = "cuda_sync"}}]

\* C38: the (device, stream) key under which a wait-event synchronization
\* is queued, and with it the decision taken at the flush, is the same
\* whether the kernel that reveals the device of the synchronization's
\* context is drained before or after the synchronization: every order
\* ends as the order kernel, synchronization does.
C38_KeyOrderIndependent ==
  result.flushed
    => SyncOutcome(prof)
         = SyncOutcome(logDeferredEvents(
                         processActivities(RevealCapture,
                                           RevealRecords(result))))

(***************************************************************************)
(* The buffer store of a capture                                           *)
(***************************************************************************)
\* C39: in every reachable state, under any interleaving of configuration
\* requests, polling ticks, step ticks, the background assembly task,
\* transferCpuTrace and performMemoryLoop, whenever the runloop state is
\* CollectTrace or ProcessTrace the buffer store of the capture exists.
C39_StoreExistsWhileCapturing ==
  prof.currentRunloopState \in {"CollectTrace", "ProcessTrace"}
    => prof.traceBuffers # Null

(***************************************************************************)
(* A capture under continued polling and stepping                          *)
(***************************************************************************)
\* the iteration at which the application's counter stays in this model
LastIter == CHOOSE i \in Iters : \A j \in Iters : j <= i

InitRun == Constructed /\ result = [iter |-> 0]

\* step() of the application: performRunLoopStep is entered with the
\* application's iteration counter, which then moves on
StepBegin ==
  /\ ~crashed
  /\ pc["step"] = "idle"
  /\ \E d \in WakeupDeltas :
       LET seen == prof.currentRunloopState
           call == [NoLocals EXCEPT !.now = clock,
                                    !.nextWakeupTime = clock + d,
                                    !.currentIter = result.iter]
       IN  IF ~returnsAtOnce(seen, result.iter)
             THEN /\ locals' = [locals EXCEPT !["step"] = call]
                  /\ Goto("step", seen)
             ELSE /\ pc' = pc
                  /\ locals' = locals
                  /\ lastOp' = [op |-> "return", t |-> "step", seen |-> seen,
                                arg |-> clock + d, ret |-> clock + d]
  /\ result' = [iter |-> IF result.iter < LastIter THEN result.iter + 1
                         ELSE result.iter]
  /\ UNCHANGED <<prof, cupti, mutex, bgPc, bgArgs, memPc, clock, crashed,
                 hist>>

\* the steps of the application thread inside performRunLoopStep
StepStep ==
  \/ StepBegin
  \/ RunLoopWarmup("step")
  \/ RunLoopWarmupStop("step")
  \/ RunLoopWarmupReset("step")
  \/ RunLoopWarmupStart("step")
  \/ RunLoopCollect("step")
  \/ RunLoopSpawn("step")

\* the steps of the background collectTrace tasks
BgStep ==
  \/ \E b \in BgIds : BgCollectTrace(b)
  \/ \E b \in BgIds : BgCollectTraceLocked(b)

NextRun ==
  \/ \E config \in Configs : Configure(config)
  \/ PollStep
  \/ StepStep
  \/ BgStep
  \/ BackendStopsEarly
  \/ Tick

SpecRun == InitRun /\ [][NextRun]_vars

\* polling ticks and step ticks keep occurring, started threads run, and
\* the clock advances
SpecRunFair ==
  /\ SpecRun
  /\ WF_vars(PollStep)
  /\ WF_vars(StepStep)
  /\ WF_vars(BgStep)
  /\ WF_vars(Tick)

====
